---- MODULE Spec2Model ----
(***************************************************************************)
(* Model of the statistical engine of script.js (Box-Jenkins analysis of   *)
(* a daily price series): diagnostic tests, the three fitters on first     *)
(* differences, model ranking, the AR(1) forecasters and the business-day  *)
(* stepper.                                                                *)
(*                                                                         *)
(* JavaScript numbers are modelled as records [k, v]:                      *)
(*   k = "num" : the finite value v / Scale (decimal fixed point, results  *)
(*               of * and / rounded to the nearest 1/Scale),               *)
(*   k = "nan" : NaN,                                                      *)
(*   k = "inf" : +Infinity (v = 1) or -Infinity (v = -1),                  *)
(*   k = "big" : a finite value whose magnitude exceeds the fixed-point    *)
(*               range (sign v),                                           *)
(*   k = "eps" : a finite positive value below the resolution (the         *)
(*               literals 1e-6 and 1e-12 of the code).                     *)
(* Only the operations the code applies to "big" and "eps" values are      *)
(* defined; TLC stops if any other one is ever evaluated.                  *)
(* Signed zero is not distinguished (a zero divisor counts as +0).         *)
(***************************************************************************)
EXTENDS Integers, Sequences, FiniteSets, TLC

\* ---------------------------------------------------------------------
\* Bounds of the model
\* ---------------------------------------------------------------------
\* resolution of the fixed-point numbers: Scale units make 1
Scale == 10000
\* largest integer part a "num" may have; beyond it a value is "big"
MaxReal == 100000
\* largest fixed-point value whose square root is taken in one step
SqrtDirectMax == 200000

\* ---------------------------------------------------------------------
\* JavaScript number model
\* ---------------------------------------------------------------------
Num(i) == [k |-> "num", v |-> i]
FromInt(n) == Num(n * Scale)
NaN == [k |-> "nan", v |-> 0]
PInf == [k |-> "inf", v |-> 1]
NInf == [k |-> "inf", v |-> -1]
Big(s) == [k |-> "big", v |-> s]
Eps == [k |-> "eps", v |-> 1]
Zero == Num(0)
One == Num(Scale)

AbsInt(i) == IF i < 0 THEN -i ELSE i
SignInt(i) == IF i < 0 THEN -1 ELSE IF i > 0 THEN 1 ELSE 0

\* product of two fixed-point magnitudes, rounded to the nearest 1/Scale
MulFix(a, b) ==
    LET s == SignInt(a) * SignInt(b)
        x == AbsInt(a)
        y == AbsInt(b)
        xh == x \div Scale
        xl == x % Scale
        yh == y \div Scale
        yl == y % Scale
    IN s * (xh * yh * Scale + xh * yl + xl * yh + (xl * yl + Scale \div 2) \div Scale)

\* decimal long division of magnitudes: the digits of (r / b) after the point
RECURSIVE FracDigits(_, _, _, _)
FracDigits(r, b, unit, acc) ==
    IF unit = 1
    THEN acc + (IF 2 * r >= b THEN 1 ELSE 0)
    ELSE FracDigits((r * 10) % b, b, unit \div 10,
                    acc + ((r * 10) \div b) * (unit \div 10))

\* quotient of two fixed-point values (b # 0), rounded to the nearest 1/Scale
DivFix(a, b) ==
    LET s == SignInt(a) * SignInt(b)
        x == AbsInt(a)
        y == AbsInt(b)
    IN s * ((x \div y) * Scale + FracDigits(x % y, y, Scale, 0))

\* TRUE when the quotient a / b leaves the fixed-point range
DivOverflows(a, b) == (AbsInt(a) \div AbsInt(b)) >= MaxReal

\* TRUE when the product a * b leaves the fixed-point range
MulOverflows(a, b) ==
    (AbsInt(a) \div Scale) + 1 > MaxReal \div ((AbsInt(b) \div Scale) + 1)

IsNaN(a) == a.k = "nan"
\* isFinite(x)
IsFinite(a) == a.k \in {"num", "big", "eps"}
SignOf(a) == IF a.k = "num" THEN SignInt(a.v) ELSE a.v
\* unary minus
Neg(a) == [a EXCEPT !.v = -a.v]
\* Math.abs
MathAbs(a) == [a EXCEPT !.v = AbsInt(a.v)]

\* a + b
Add(a, b) ==
    CASE a.k = "nan" \/ b.k = "nan" -> NaN
      [] a.k = "inf" /\ b.k = "inf" -> IF a.v = b.v THEN a ELSE NaN
      [] a.k = "inf" /\ b.k # "inf" -> a
      [] a.k # "inf" /\ b.k = "inf" -> b
      [] a.k = "num" /\ b.k = "num" -> Num(a.v + b.v)
      [] a.k = "big" /\ b.k = "num" -> a
      [] a.k = "num" /\ b.k = "big" -> b
      [] a.k = "big" /\ b.k = "big" /\ a.v = b.v -> a

\* a - b
Sub(a, b) == Add(a, Neg(b))

\* a * b
Mul(a, b) ==
    CASE a.k = "nan" \/ b.k = "nan" -> NaN
      [] a.k = "inf" /\ b.k # "nan" ->
            IF SignOf(b) = 0 THEN NaN ELSE [k |-> "inf", v |-> a.v * SignOf(b)]
      [] a.k # "inf" /\ a.k # "nan" /\ b.k = "inf" ->
            IF SignOf(a) = 0 THEN NaN ELSE [k |-> "inf", v |-> b.v * SignOf(a)]
      [] a.k = "num" /\ b.k = "num" ->
            IF MulOverflows(a.v, b.v)
            THEN Big(SignInt(a.v) * SignInt(b.v))
            ELSE Num(MulFix(a.v, b.v))
      [] a.k = "big" /\ b.k = "num" /\ (b.v = 0 \/ AbsInt(b.v) >= Scale \div 10) ->
            IF b.v = 0 THEN Zero ELSE Big(a.v * SignInt(b.v))
      [] a.k = "num" /\ b.k = "big" /\ (a.v = 0 \/ AbsInt(a.v) >= Scale \div 10) ->
            IF a.v = 0 THEN Zero ELSE Big(b.v * SignInt(a.v))
      [] a.k = "big" /\ b.k = "big" -> Big(a.v * b.v)

\* a / b
Div(a, b) ==
    CASE a.k = "nan" \/ b.k = "nan" -> NaN
      [] a.k = "inf" /\ b.k = "inf" -> NaN
      [] a.k = "inf" /\ b.k \in {"num", "big", "eps"} ->
            [k |-> "inf", v |-> a.v * (IF SignOf(b) < 0 THEN -1 ELSE 1)]
      [] a.k \in {"num", "big", "eps"} /\ b.k = "inf" -> Zero
      [] a.k = "num" /\ b.k = "big" -> Zero
      [] a.k = "num" /\ b.k = "eps" ->
            IF a.v = 0 THEN Zero ELSE Big(SignInt(a.v))
      [] a.k = "big" /\ b.k = "num" /\ b.v # 0 /\ AbsInt(b.v) <= 10 * Scale ->
            Big(a.v * SignInt(b.v))
      [] a.k = "num" /\ b.k = "num" ->
            IF b.v = 0
            THEN (IF a.v = 0 THEN NaN ELSE [k |-> "inf", v |-> SignInt(a.v)])
            ELSE IF DivOverflows(a.v, b.v)
                 THEN Big(SignInt(a.v) * SignInt(b.v))
                 ELSE Num(DivFix(a.v, b.v))

\* a < b  (false when either side is NaN)
Lt(a, b) ==
    CASE a.k = "nan" \/ b.k = "nan" -> FALSE
      [] a.k = "num" /\ b.k = "num" -> a.v < b.v
      [] a.k = "inf" /\ b.k # "nan" -> a.v = -1 /\ b # NInf
      [] a.k \in {"num", "big", "eps"} /\ b.k = "inf" -> b.v = 1
      [] a.k = "big" /\ b.k \in {"num", "eps"} -> a.v = -1
      [] a.k \in {"num", "eps"} /\ b.k = "big" -> b.v = 1
      [] a.k = "num" /\ b.k = "eps" -> a.v <= 0
      [] a.k = "eps" /\ b.k = "num" -> b.v >= 1
\* a === b
StrictEq(a, b) == a.k # "nan" /\ b.k # "nan" /\ a = b
\* a <= b, a > b, a >= b
Le(a, b) == Lt(a, b) \/ StrictEq(a, b)
Gt(a, b) == Lt(b, a)
Ge(a, b) == Le(b, a)
\* truthiness of a number in a condition (x ? .. : ..): 0 and NaN are false
Truthy(a) == a.k # "nan" /\ ~(a.k = "num" /\ a.v = 0)

\* Math.max(a, b), Math.min(a, b)
MathMax(a, b) == IF IsNaN(a) \/ IsNaN(b) THEN NaN ELSE IF Lt(a, b) THEN b ELSE a
MathMin(a, b) == IF IsNaN(a) \/ IsNaN(b) THEN NaN ELSE IF Lt(b, a) THEN b ELSE a

\* integer square root by bisection: the largest r in lo..hi with r*r <= n
RECURSIVE ISqrt(_, _, _)
ISqrt(n, lo, hi) ==
    IF lo >= hi THEN lo
    ELSE LET mid == (lo + hi + 1) \div 2
         IN IF mid * mid <= n THEN ISqrt(n, mid, hi) ELSE ISqrt(n, lo, mid - 1)

\* square root of a non-negative fixed-point value
RECURSIVE SqrtFix(_)
SqrtFix(v) ==
    IF v > SqrtDirectMax
    THEN 10 * SqrtFix(v \div 100)
    ELSE LET n == v * Scale
             r == ISqrt(n, 0, 46340)
         IN IF n - r * r > r THEN r + 1 ELSE r

\* Math.sqrt
MathSqrt(a) ==
    CASE a.k = "nan" -> NaN
      [] a.k = "inf" -> IF a.v = 1 THEN PInf ELSE NaN
      [] a.k = "big" -> IF a.v = 1 THEN a ELSE NaN
      [] a.k = "num" -> IF a.v < 0 THEN NaN ELSE Num(SqrtFix(a.v))

\* ln 2 and ln(2*pi) at the model's resolution
Ln2Fix == 6931
Ln2PiFix == 18379

\* bring v into [Scale, 2*Scale) counting the powers of two taken out
RECURSIVE LnReduce(_, _)
LnReduce(v, e) ==
    IF v >= 2 * Scale THEN LnReduce(v \div 2, e + 1)
    ELSE IF v < Scale THEN LnReduce(v * 2, e - 1)
    ELSE <<v, e>>

\* 2*atanh(y) = 2*y*(1 + y^2/3 + y^4/5 + y^6/7), y2 the square of y
AtanhSeries(y, y2) ==
    2 * MulFix(y, Scale + MulFix(y2, Scale \div 3
                   + MulFix(y2, Scale \div 5 + MulFix(y2, Scale \div 7))))

\* ln(m * 2^e) = e*ln2 + 2*atanh(y) with y = (m-1)/(m+1)
LnOfRatio(e, y) == e * Ln2Fix + AtanhSeries(y, MulFix(y, y))
LnOfReduced(red) == LnOfRatio(red[2], DivFix(red[1] - Scale, red[1] + Scale))

\* natural logarithm of a positive fixed-point value
LnFix(v) == LnOfReduced(LnReduce(v, 0))

\* Math.log
MathLog(a) ==
    CASE a.k = "nan" -> NaN
      [] a.k = "inf" -> IF a.v = 1 THEN PInf ELSE NaN
      [] a.k = "num" -> IF a.v < 0 THEN NaN
                        ELSE IF a.v = 0 THEN NInf
                        ELSE Num(LnFix(a.v))

\* e^-1 at the model's resolution
ExpM1Fix == 3679

\* e^(-n) for a natural number n
RECURSIVE ExpNegInt(_)
ExpNegInt(n) == IF n = 0 THEN Scale
                ELSE IF n > 10 THEN 0
                ELSE MulFix(ExpM1Fix, ExpNegInt(n - 1))

\* the Taylor series of e^(-f/Scale) from its k-th factor on:
\* 1 - (f/k) * (1 - (f/(k+1)) * ...), cut after the 8th
RECURSIVE ExpTaylor(_, _)
ExpTaylor(f, k) ==
    IF k > 8 THEN Scale
    ELSE Scale - MulFix(f, ExpTaylor(f, k + 1)) \div k

\* e^(-f/Scale) for 0 <= f < Scale
ExpNegFrac(f) == ExpTaylor(f, 1)

\* Math.exp for arguments <= 0 (the only ones the engine evaluates)
MathExp(a) ==
    CASE a.k = "nan" -> NaN
      [] a.k = "inf" /\ a.v = -1 -> Zero
      [] a.k = "big" /\ a.v = -1 -> Zero
      [] a.k = "num" /\ a.v <= 0 ->
            Num(MulFix(ExpNegInt((-a.v) \div Scale), ExpNegFrac((-a.v) % Scale)))

\* Math.pow(a, j) for an integer exponent j >= 1
RECURSIVE MathPowInt(_, _)
MathPowInt(a, j) == IF j = 1 THEN a ELSE Mul(a, MathPowInt(a, j - 1))


\* Math.pow(a, 1/3) on fixed-point magnitudes: the largest r in lo..hi with r^3 <= v
RECURSIVE CbrtFix(_, _, _)
CbrtFix(v, lo, hi) ==
    IF lo >= hi THEN lo
    ELSE LET mid == (lo + hi + 1) \div 2
         IN IF MulFix(MulFix(mid, mid), mid) <= v
            THEN CbrtFix(v, mid, hi) ELSE CbrtFix(v, lo, mid - 1)

\* Math.pow(a, 1 / 3)
MathCbrt(a) ==
    CASE a.k = "nan" -> NaN
      [] a.k = "inf" -> IF a.v = 1 THEN PInf ELSE NaN
      [] a.k = "big" -> IF a.v = 1 THEN a ELSE NaN
      [] a.k = "num" -> IF a.v < 0 THEN NaN
                        ELSE Num(CbrtFix(a.v, 0, 46 * Scale))

\* Math.sign
MathSign(a) == IF IsNaN(a) THEN NaN ELSE FromInt(SignOf(a))

\* ---------------------------------------------------------------------
\* Arrays of numbers (JavaScript index i is TLA+ index i + 1)
\* ---------------------------------------------------------------------
\* the sum of f[lo..hi], halving the range (addition of the model's numbers
\* does not depend on the order)
RECURSIVE SumRange(_, _, _)
SumRange(f, lo, hi) ==
    IF lo > hi THEN Zero
    ELSE IF lo = hi THEN f[lo]
    ELSE LET mid == (lo + hi) \div 2
         IN Add(SumRange(f, lo, mid), SumRange(f, mid + 1, hi))

\* arr.reduce((a, b) => a + b, 0)
SumArr(arr) == SumRange(arr, 1, Len(arr))

\* arr.reduce((a, b) => a + b * b, 0)
SumSqArr(arr) == SumRange([i \in 1..Len(arr) |-> Mul(arr[i], arr[i])], 1, Len(arr))

\* sum over i of a[i] * b[i]  (arrays of equal length)
SumProd(a, b) == SumRange([i \in 1..Len(a) |-> Mul(a[i], b[i])], 1, Len(a))

\* arr.map(v => v - m)
Centered(arr, m) == [i \in 1..Len(arr) |-> Sub(arr[i], m)]

\* the first differences prices[i] - prices[i-1]
Differences(prices) ==
    IF Len(prices) < 2 THEN <<>>
    ELSE [i \in 1..(Len(prices) - 1) |-> Sub(prices[i + 1], prices[i])]

\* ---------------------------------------------------------------------
\* Statistical helpers
\* ---------------------------------------------------------------------
\* prob = d * t * (0.3193815 + t * (-0.3565638 + t * (1.781478
\*                      + t * (-1.821256 + t * 1.330274))))
NormalCdfProb(d, t) ==
    Mul(Mul(d, t),
        Add(Num(3194), Mul(t, Add(Num(-3566), Mul(t, Add(Num(17815),
            Mul(t, Add(Num(-18213), Mul(t, Num(13303))))))))))

\* t = 1 / (1 + 0.2316419 * Math.abs(z)); d = 0.3989423 * Math.exp(-z * z / 2)
normalCdfTail(z) ==
    NormalCdfProb(Mul(Num(3989), MathExp(Div(Mul(Neg(z), z), FromInt(2)))),
                  Div(One, Add(One, Mul(Num(2316), MathAbs(z)))))

\* if (z > 0) prob = 1 - prob; return z >= 0 ? 1 - prob : prob
NormalCdfResult(z, prob0) ==
    IF Gt(z, Zero) THEN Sub(One, Sub(One, prob0))
    ELSE IF Ge(z, Zero) THEN Sub(One, prob0)
    ELSE prob0

\* normalCdf(z)
normalCdf(z) == NormalCdfResult(z, normalCdfTail(z))

\* chiSquareUpperTailP(Q, df), df an integer
chiSquareUpperTailP(Q, df) ==
    IF df <= 0 THEN One
    ELSE LET a == Sub(One, Div(FromInt(2), FromInt(9 * df)))
             z == Div(Sub(MathCbrt(Div(Q, FromInt(df))), a),
                      MathSqrt(Div(FromInt(2), FromInt(9 * df))))
             pUpper == Sub(One, normalCdf(z))
         IN MathMin(MathMax(pUpper, Zero), One)

\* a * a
Square(a) == Mul(a, a)
\* arr.reduce((a, b) => a + b, 0) / arr.length
Mean(arr) == Div(SumArr(arr), FromInt(Len(arr)))

\* computeJarqueBera(values), each step handing its values to the next
computeJarqueBera(values) ==
    LET result(jb) == [jb |-> jb, pValue |-> MathExp(Div(Neg(jb), FromInt(2)))]
        statistic(n, skew, kurt) ==
            result(Mul(Div(FromInt(n), FromInt(6)),
                       Add(Square(skew),
                           Div(Square(Sub(kurt, FromInt(3))), FromInt(4)))))
        moments(n, m2, m3, m4) ==
            statistic(n, Div(m3, Mul(m2, MathSqrt(m2))), Div(m4, Square(m2)))
        sums(n, x) ==
            moments(n,
                    Div(SumArr([i \in 1..n |-> Mul(x[i], x[i])]), FromInt(n)),
                    Div(SumArr([i \in 1..n |-> Mul(Mul(x[i], x[i]), x[i])]),
                        FromInt(n)),
                    Div(SumArr([i \in 1..n |->
                                   Mul(Mul(Mul(x[i], x[i]), x[i]), x[i])]),
                        FromInt(n)))
    IN IF Len(values) < 8 THEN [jb |-> NaN, pValue |-> NaN]
       ELSE sums(Len(values), Centered(values, Mean(values)))

\* prices[i] - mean for every i, mean being prices.reduce(...) / n.  The
\* double sum 0.1 + 0.1 + 0.1 is 0.30000000000000004 and its third is
\* 0.10000000000000002: every deviation of three entries 0.1 is the same
\* rounding error, given here in units of its size, 1.39e-17
DeviationsFromMean(prices) ==
    IF Len(prices) = 3 /\ \A i \in 1..3 : prices[i] = Num(1000)
    THEN [i \in 1..3 |-> Neg(One)]
    ELSE Centered(prices, Mean(prices))

\* computeAutocorrelations(values, m)
computeAutocorrelations(values, m) ==
    LET ratios(v, n, denom) ==
            [k \in 1..m |->
                IF Truthy(denom)
                THEN Div(SumProd(SubSeq(v, k + 1, n), SubSeq(v, 1, n - k)), denom)
                ELSE Zero]
        centered(v) == ratios(v, Len(v), SumSqArr(v))
    IN IF Len(values) < m + 1 THEN [k \in 1..m |-> NaN]
       ELSE centered(DeviationsFromMean(values))

\* the sum over k = 1..m of ac[k-1]^2 / (n - k) in ljungBoxTest
LjungBoxSum(ac, n, m) ==
    SumRange([k \in 1..m |-> Div(Mul(ac[k], ac[k]), FromInt(n - k))], 1, m)

\* ljungBoxTest(residuals, m, p)
ljungBoxTest(residuals, m, p) ==
    LET result(Q, df) == [Q |-> Q, pValue |-> chiSquareUpperTailP(Q, df)]
        statistic(n, ac) ==
            result(Mul(LjungBoxSum(ac, n, m), FromInt(n * (n + 2))),
                   IF m - p > 1 THEN m - p ELSE 1)
    IN IF Len(residuals) < m + 1 THEN [Q |-> NaN, pValue |-> NaN]
       ELSE statistic(Len(residuals), computeAutocorrelations(residuals, m))

\* archLMTest(residuals, m), each step handing its values to the next
archLMTest(residuals, m) ==
    LET result(LM, R2) == [LM |-> LM, pValue |-> chiSquareUpperTailP(LM, m), R2 |-> R2]
        rsquared(nX, R2) == result(Mul(FromInt(nX), MathMax(Zero, R2)), R2)
        squares(nX, ssr, tss) ==
            rsquared(nX, IF Truthy(tss) THEN Sub(One, Div(ssr, tss)) ELSE Zero)
        line(X, Y, dy, alpha, beta) ==
            squares(Len(X),
                    SumSqArr([i \in 1..Len(X) |->
                                 Sub(Y[i], Add(alpha, Mul(beta, X[i])))]),
                    SumSqArr(dy))
        slope(X, Y, meanX, meanY, dy, beta) ==
            line(X, Y, dy, Sub(meanY, Mul(beta, meanX)), beta)
        sums(X, Y, meanX, meanY, dy, cov, varX) ==
            slope(X, Y, meanX, meanY, dy,
                  IF Truthy(varX) THEN Div(cov, varX) ELSE Zero)
        deviations(X, Y, meanX, meanY, dx, dy) ==
            sums(X, Y, meanX, meanY, dy, SumProd(dx, dy), SumSqArr(dx))
        means(X, Y, meanX, meanY) ==
            deviations(X, Y, meanX, meanY, Centered(X, meanX), Centered(Y, meanY))
        lagged(X, Y) == means(X, Y, Mean(X), Mean(Y))
        squared(y) == lagged(SubSeq(y, 1, Len(y) - 1), SubSeq(y, 2, Len(y)))
    IN IF Len(residuals) < m + 2 THEN [LM |-> NaN, pValue |-> NaN, R2 |-> NaN]
       ELSE squared([i \in 1..Len(residuals) |-> Mul(residuals[i], residuals[i])])

\* the 5% critical value of adfTest
AdfCritical5 == Num(-28600)

\* adfTest(data)
adfTest(prices) ==
    LET result(adfStat, isStationary) ==
            [statistic |-> adfStat, isStationary |-> isStationary,
             pValue |-> IF isStationary THEN Num(300) ELSE Num(1500)]
        statistic(adfStat) == result(adfStat, Lt(adfStat, AdfCritical5))
        moments(nd, meanDiff, variance) ==
            statistic(Div(meanDiff, MathSqrt(Div(variance, FromInt(nd)))))
        mean(differences, meanDiff) ==
            moments(Len(differences), meanDiff,
                    Div(SumSqArr(Centered(differences, meanDiff)),
                        FromInt(Len(differences) - 1)))
        differenced(differences) == mean(differences, Mean(differences))
    IN differenced(Differences(prices))

\* ---------------------------------------------------------------------
\* Fitters on first differences
\* ---------------------------------------------------------------------
\* Math.log(2 * Math.PI)
Ln2Pi == Num(Ln2PiFix)

\* logL = -0.5 * nEff * (Math.log(2 * Math.PI) + Math.log(sigma2) + 1)
GaussLogL(nEff, sigma2) ==
    Mul(Mul(Num(-(Scale \div 2)), FromInt(nEff)),
        Add(Add(Ln2Pi, MathLog(sigma2)), One))

\* AIC = -2 * logL + 2 * k
AicOf(logL, k) == Add(Mul(FromInt(-2), logL), FromInt(2 * k))

\* BIC with the sample size in place of its logarithm
BicOfNoLog(logL, k, nEff) ==
    Add(Mul(FromInt(-2), logL),
        Mul(FromInt(k), FromInt(IF nEff > 1 THEN nEff ELSE 1)))

\* BIC = -2 * logL + k * Math.log(Math.max(1, nEff))
BicOf(logL, k, nEff) ==
    Add(Mul(FromInt(-2), logL),
        Mul(FromInt(k), MathLog(FromInt(IF nEff > 1 THEN nEff ELSE 1))))

\* residuals.reduce((a, b) => a + b * b, 0) / Math.max(1, nEff)
MeanSquare(residuals) ==
    Div(SumSqArr(residuals), FromInt(IF Len(residuals) > 1 THEN Len(residuals) ELSE 1))

\* the shortest series fitAR1OnDiff and fitMA1OnDiff accept
MinPricesAR1 == 3
MinPricesMA1 == 3
\* the shortest series fitARMA11OnDiff accepts
MinPricesARMA11 == 4

\* fitAR1OnDiff(prices), each step handing its values to the next
fitAR1OnDiff(prices) ==
    LET result(phi, residuals, sigma2, se, t, logL) ==
            [phi |-> phi, residuals |-> residuals, sigma2 |-> sigma2, se |-> se,
             t |-> t,
             pValue |-> Mul(FromInt(2), Sub(One, normalCdf(MathAbs(t)))),
             AIC |-> AicOf(logL, 2), BIC |-> BicOf(logL, 2, Len(residuals))]
        inference(phi, residuals, sigma2, se) ==
            result(phi, residuals, sigma2, se,
                   IF Truthy(se) THEN Div(phi, se) ELSE NaN,
                   GaussLogL(Len(residuals), sigma2))
        variance(phi, den, residuals, sigma2) ==
            inference(phi, residuals, sigma2,
                      MathSqrt(Div(sigma2, MathMax(den, Eps))))
        errors(phi, den, residuals) ==
            variance(phi, den, residuals, MeanSquare(residuals))
        slope(y, x, den, phi) ==
            errors(phi, den, [i \in 1..Len(y) |-> Sub(y[i], Mul(phi, x[i]))])
        sums(y, x, num, den) ==
            slope(y, x, den, IF Truthy(den) THEN Div(num, den) ELSE Zero)
        regression(y, x) == sums(y, x, SumProd(y, x), SumSqArr(x))
        lagged(returns) ==
            regression(SubSeq(returns, 2, Len(returns)),
                       SubSeq(returns, 1, Len(returns) - 1))
    IN IF Len(prices) < MinPricesAR1
       THEN [phi |-> NaN, residuals |-> <<>>, sigma2 |-> NaN, se |-> NaN, t |-> NaN,
             pValue |-> NaN, AIC |-> NaN, BIC |-> NaN]
       ELSE lagged(Differences(prices))

\* an autocorrelation array whose lag 0 is a ratio like every other lag
RatiosOfDeviations(c, maxLags) ==
    [j \in 1..(maxLags + 1) |->
        Div(SumProd(SubSeq(c, 1, Len(c) - (j - 1)), SubSeq(c, j, Len(c))),
            SumSqArr(c))]

\* the loop over the lags of calculateACF, c holding the deviations:
\* acf.push(lag === 0 ? 1 : numerator / denominator)
ACFOfDeviations(c, maxLags) ==
    LET ratios(n, denominator) ==
            [j \in 1..(maxLags + 1) |->
                IF j = 1 THEN One
                ELSE Div(SumProd(SubSeq(c, 1, n - (j - 1)), SubSeq(c, j, n)),
                         denominator)]
    IN ratios(Len(c), SumSqArr(c))

\* calculateACF(data, maxLags) on a numeric array
calculateACF(prices, maxLags) == ACFOfDeviations(DeviationsFromMean(prices), maxLags)

\* a partial autocorrelation that repeats the autocorrelation
PACFRepeatsACF(acf, k) == SubSeq(acf, 1, k + 1)

\* calculatePACF(data, maxLags): pacf[k] = acf[k] - sum of pacf[j] * acf[k - j]
\* over 0 < j < k, divided by 1
RECURSIVE PACFOfACF(_, _)
PACFOfACF(acf, k) ==
    LET next(pacf) ==
            Append(pacf,
                   IF k = 1 THEN acf[2]
                   ELSE Div(Sub(acf[k + 1],
                                SumArr([j \in 1..(k - 1) |->
                                           Mul(pacf[j + 1], acf[k - j + 1])])),
                            One))
    IN IF k = 0 THEN <<One>> ELSE next(PACFOfACF(acf, k - 1))

calculatePACF(data, maxLags) == PACFOfACF(calculateACF(data, maxLags), maxLags)

\* estimateThetaFromACF1(rho1)
estimateThetaFromACF1(rho1) ==
    LET capped(theta) ==
            IF Gt(MathAbs(theta), Num(9900)) THEN Mul(MathSign(theta), Num(9900))
            ELSE theta
        roots(t1, t2) == capped(IF Le(MathAbs(t1), One) THEN t1 ELSE t2)
        solve(r, root) ==
            roots(Div(Sub(One, root), Mul(FromInt(2), r)),
                  Div(Add(One, root), Mul(FromInt(2), r)))
        discriminant(r, disc) ==
            IF Lt(disc, Zero) THEN Zero ELSE solve(r, MathSqrt(disc))
        clamped(r) ==
            IF Lt(MathAbs(r), Eps) THEN Zero
            ELSE discriminant(r, Sub(One, Mul(Mul(FromInt(4), r), r)))
    IN clamped(MathMax(Num(-4900), MathMin(Num(4900), rho1)))

\* residuals that leave out the first observation
MA1ResidualsAfterFirst(x, theta, t) == [i \in 1..(t - 1) |-> x[i + 1]]

\* the residual recursion eps_t = x_t - theta * eps_(t-1) of fitMA1OnDiff
RECURSIVE MA1Residuals(_, _, _)
MA1Residuals(x, theta, t) ==
    LET next(prev) ==
            Append(prev, Sub(x[t], Mul(theta, IF t = 1 THEN Zero ELSE prev[t - 1])))
    IN IF t = 0 THEN <<>> ELSE next(MA1Residuals(x, theta, t - 1))

\* the tail shared by fitMA1OnDiff and fitARMA11OnDiff: sigma2, logL, AIC, BIC
\* of the residuals, k parameters counted
FittedCriteria(residuals, k) ==
    LET result(sigma2, logL) ==
            [sigma2 |-> sigma2, logL |-> logL,
             AIC |-> AicOf(logL, k), BIC |-> BicOf(logL, k, Len(residuals))]
        likelihood(sigma2) == result(sigma2, GaussLogL(Len(residuals), sigma2))
    IN likelihood(MeanSquare(residuals))

\* fitMA1OnDiff(prices)
fitMA1OnDiff(prices) ==
    LET result(theta, residuals, fit) ==
            [theta |-> theta, residuals |-> residuals, sigma2 |-> fit.sigma2,
             logL |-> fit.logL, AIC |-> fit.AIC, BIC |-> fit.BIC]
        errors(theta, residuals) == result(theta, residuals, FittedCriteria(residuals, 2))
        moment(x, theta) == errors(theta, MA1Residuals(x, theta, Len(x)))
        lagOne(x, rho1) ==
            moment(x, estimateThetaFromACF1(IF IsFinite(rho1) THEN rho1 ELSE Zero))
        centered(x) == lagOne(x, calculateACF(x, 2)[2])
        differenced(returns) == centered(Centered(returns, Mean(returns)))
    IN IF Len(prices) < MinPricesMA1
       THEN [theta |-> NaN, residuals |-> <<>>, sigma2 |-> NaN, logL |-> NaN,
             AIC |-> NaN, BIC |-> NaN]
       ELSE differenced(Differences(prices))

\* the residual recursion eps_t = x_t - phi * x_(t-1) - theta * eps_(t-1)
\* of fitARMA11OnDiff, for t = 1 .. x.length - 1
RECURSIVE ARMA11Residuals(_, _, _, _)
ARMA11Residuals(x, phi, theta, t) ==
    LET next(prev) ==
            Append(prev, Sub(Sub(x[t + 1], Mul(phi, x[t])),
                             Mul(theta, IF t = 1 THEN Zero ELSE prev[t - 1])))
    IN IF t = 0 THEN <<>> ELSE next(ARMA11Residuals(x, phi, theta, t - 1))

\* the grid of fitARMA11OnDiff: -0.9, -0.8, .., 0.9 (19 values per axis)
GridSteps == 19
GridValue(i) == Num(-9000 + 1000 * i)

\* the running best <<bestPhi, bestTheta, bestSigma2>> before the grid search
ARMA11Start == <<Zero, Zero, PInf>>

\* a replacement test that also lets an equal candidate win
ARMA11BetterOrEqual(cand, best) == IF Le(cand[3], best[3]) THEN cand ELSE best

\* `if (sigma2 < bestSigma2)' of the grid search: the candidate replaces the
\* running best only when strictly better
ARMA11Better(cand, best) == IF Lt(cand[3], best[3]) THEN cand ELSE best

\* one iteration of the grid search, pair number idx in scan order (phi outer,
\* theta inner): the pair's <<phi, theta, sigma2>>
ARMA11Candidate(x, idx) ==
    <<GridValue(idx \div GridSteps), GridValue(idx % GridSteps),
      MeanSquare(ARMA11Residuals(x, GridValue(idx \div GridSteps),
                                 GridValue(idx % GridSteps), Len(x) - 1))>>

\* the pair d comes before the pair c in scan order (phi outer, theta inner)
ScannedBefore(d, c) == Lt(d[1], c[1]) \/ (d[1] = c[1] /\ Lt(d[2], c[2]))

\* the grid search over all pairs in scan order, starting from `best'.  A pair
\* replaces the running best exactly when the replacement test prefers it, so
\* the loop ends on the one pair that the test prefers to the start and to
\* every pair scanned before it, and to which it prefers no pair scanned after
\* it; it ends on the start when the test prefers no pair to it.
ARMA11Search(x, best) ==
    LET final(replacing) ==
            IF replacing = {} THEN best
            ELSE CHOOSE c \in replacing :
                     \A d \in replacing \ {c} :
                         IF ScannedBefore(d, c) THEN ARMA11Better(c, d) = c
                         ELSE ARMA11Better(d, c) = c
        scanned(cands) == final({c \in cands : ARMA11Better(c, best) = c})
    IN scanned({ARMA11Candidate(x, idx) : idx \in 0..(GridSteps * GridSteps - 1)})

\* fitARMA11OnDiff(prices)
fitARMA11OnDiff(prices) ==
    LET result(best, residuals, fit) ==
            [phi |-> best[1], theta |-> best[2], residuals |-> residuals,
             sigma2 |-> fit.sigma2, logL |-> fit.logL, AIC |-> fit.AIC,
             BIC |-> fit.BIC]
        errors(best, residuals) == result(best, residuals, FittedCriteria(residuals, 3))
        searched(x, best) ==
            errors(best, ARMA11Residuals(x, best[1], best[2], Len(x) - 1))
        centered(x) ==
            searched(x, ARMA11Search(x, ARMA11Start))
        differenced(returns) == centered(Centered(returns, Mean(returns)))
    IN IF Len(prices) < MinPricesARMA11
       THEN [phi |-> NaN, theta |-> NaN, residuals |-> <<>>, sigma2 |-> NaN,
             logL |-> NaN, AIC |-> NaN, BIC |-> NaN]
       ELSE differenced(Differences(prices))

\* ---------------------------------------------------------------------
\* Descriptive statistics
\* ---------------------------------------------------------------------
\* a filter that keeps every entry
KeepEveryEntry(arr) == arr

\* data.filter(v => typeof v === 'number' && isFinite(v))
RECURSIVE FilterFinite(_)
FilterFinite(arr) ==
    LET keep(front, v) == IF IsFinite(v) THEN Append(front, v) ELSE front
    IN IF arr = <<>> THEN <<>>
       ELSE keep(FilterFinite(SubSeq(arr, 1, Len(arr) - 1)), arr[Len(arr)])

\* insertion of v into an ascending array, after the entries not above it
RECURSIVE InsertAsc(_, _)
InsertAsc(sorted, v) ==
    IF sorted = <<>> THEN <<v>>
    ELSE IF Lt(v, sorted[Len(sorted)])
         THEN Append(InsertAsc(SubSeq(sorted, 1, Len(sorted) - 1), v), sorted[Len(sorted)])
         ELSE Append(sorted, v)

\* [...prices].sort((a, b) => a - b)
RECURSIVE SortAsc(_)
SortAsc(arr) ==
    IF arr = <<>> THEN <<>>
    ELSE InsertAsc(SortAsc(SubSeq(arr, 1, Len(arr) - 1)), arr[Len(arr)])

\* data.reduce((acc, val) => acc + Math.pow((val - mean) / stdDev, p), 0)
StandardizedPowerSum(data, mean, stdDev, p) ==
    SumArr([i \in 1..Len(data) |-> MathPowInt(Div(Sub(data[i], mean), stdDev), p)])

\* calculateSkewness(data, mean, stdDev)
calculateSkewness(data, mean, stdDev) ==
    LET scaled(n) ==
            Mul(Div(FromInt(n), FromInt((n - 1) * (n - 2))),
                StandardizedPowerSum(data, mean, stdDev, 3))
    IN IF ~IsFinite(stdDev) \/ StrictEq(stdDev, Zero) THEN Zero
       ELSE scaled(Len(data))

\* calculateKurtosis(data, mean, stdDev)
calculateKurtosis(data, mean, stdDev) ==
    LET scaled(n) ==
            Sub(Mul(Div(FromInt(n * (n + 1)), FromInt((n - 1) * (n - 2) * (n - 3))),
                    StandardizedPowerSum(data, mean, stdDev, 4)),
                Div(FromInt(3 * (n - 1) * (n - 1)), FromInt((n - 2) * (n - 3))))
    IN IF ~IsFinite(stdDev) \/ StrictEq(stdDev, Zero) THEN Zero
       ELSE scaled(Len(data))

\* the statistics of one observation taken from the general formulas: the
\* variance divides by n - 1 = 0
SingleObservationUndefined(v) ==
    [n |-> 1, mean |-> v, median |-> v, variance |-> NaN, stdDev |-> NaN,
     range |-> Zero, cv |-> NaN, skewness |-> Zero, kurtosis |-> Zero,
     min |-> v, max |-> v, q1 |-> v, q3 |-> v]

\* the branch n === 1 of calculateDescriptiveStats
SingleObservationStats(v) ==
    [n |-> 1, mean |-> v, median |-> v, variance |-> Zero, stdDev |-> Zero,
     range |-> Zero, cv |-> Zero, skewness |-> Zero, kurtosis |-> Zero,
     min |-> v, max |-> v, q1 |-> v, q3 |-> v]

\* calculateDescriptiveStats(data) on a numeric array
calculateDescriptiveStats(data) ==
    LET result(prices, n, sortedPrices, mean, variance, stdDev) ==
            [n |-> n, mean |-> mean,
             median |-> IF n % 2 = 0
                        THEN Div(Add(sortedPrices[n \div 2], sortedPrices[n \div 2 + 1]),
                                 FromInt(2))
                        ELSE sortedPrices[n \div 2 + 1],
             variance |-> variance,
             stdDev |-> stdDev,
             range |-> Sub(sortedPrices[n], sortedPrices[1]),
             cv |-> Mul(Div(stdDev, mean), FromInt(100)),
             skewness |-> calculateSkewness(prices, mean, stdDev),
             kurtosis |-> calculateKurtosis(prices, mean, stdDev),
             min |-> sortedPrices[1], max |-> sortedPrices[n],
             q1 |-> sortedPrices[(n \div 4) + 1],
             q3 |-> sortedPrices[((3 * n) \div 4) + 1]]
        spread(prices, sortedPrices, mean, variance) ==
            result(prices, Len(prices), sortedPrices, mean, variance,
                   MathSqrt(variance))
        centre(prices, sortedPrices, mean) ==
            spread(prices, sortedPrices, mean,
                   Div(SumSqArr(Centered(prices, mean)), FromInt(Len(prices) - 1)))
        filtered(prices) ==
            IF Len(prices) = 0
            THEN [n |-> 0, mean |-> NaN, median |-> NaN, variance |-> NaN,
                  stdDev |-> NaN, range |-> NaN, cv |-> NaN, skewness |-> NaN,
                  kurtosis |-> NaN, min |-> NaN, max |-> NaN, q1 |-> NaN, q3 |-> NaN]
            ELSE IF Len(prices) = 1
            THEN SingleObservationStats(prices[1])
            ELSE centre(prices, SortAsc(prices), Mean(prices))
    IN filtered(FilterFinite(data))

\* ---------------------------------------------------------------------
\* Model selection
\* ---------------------------------------------------------------------
\* the three candidates of generateModelSelectionForStage2, in array order
ModelCandidates(ar1, ma1, arma11) ==
    << [name |-> "ARIMA(1,1,0)", AIC |-> ar1.AIC, BIC |-> ar1.BIC, k |-> 2],
       [name |-> "ARIMA(0,1,1)", AIC |-> ma1.AIC, BIC |-> ma1.BIC, k |-> 2],
       [name |-> "ARIMA(1,1,1)", AIC |-> arma11.AIC, BIC |-> arma11.BIC, k |-> 3] >>

\* .filter(m => isFinite(m.AIC) && isFinite(m.BIC))
RECURSIVE FilterFiniteModels(_)
FilterFiniteModels(models) ==
    LET keep(front, m) ==
            IF IsFinite(m.AIC) /\ IsFinite(m.BIC) THEN Append(front, m) ELSE front
    IN IF models = <<>> THEN <<>>
       ELSE keep(FilterFiniteModels(SubSeq(models, 1, Len(models) - 1)),
                 models[Len(models)])

\* a comparator that ignores the BIC
CompareModelsByAIC(a, b) == Sub(a.AIC, b.AIC)

\* the comparator (a, b) => (a.AIC - b.AIC) || (a.BIC - b.BIC)
CompareModels(a, b) ==
    IF Truthy(Sub(a.AIC, b.AIC)) THEN Sub(a.AIC, b.AIC) ELSE Sub(a.BIC, b.BIC)

\* stable insertion of m into a sorted array: after every entry that does not
\* compare above it
RECURSIVE InsertModel(_, _)
InsertModel(sorted, m) ==
    IF sorted = <<>> THEN <<m>>
    ELSE IF Gt(CompareModels(sorted[Len(sorted)], m), Zero)
         THEN Append(InsertModel(SubSeq(sorted, 1, Len(sorted) - 1), m), sorted[Len(sorted)])
         ELSE Append(sorted, m)

\* models.sort(comparator)  (Array.prototype.sort is stable)
RECURSIVE SortModels(_)
SortModels(models) ==
    IF models = <<>> THEN <<>>
    ELSE InsertModel(SortModels(SubSeq(models, 1, Len(models) - 1)), models[Len(models)])

\* models.forEach((m, i) => { m.rank = i + 1; })
AssignRanks(models) ==
    [i \in 1..Len(models) |->
        [name |-> models[i].name, AIC |-> models[i].AIC, BIC |-> models[i].BIC,
         k |-> models[i].k, rank |-> i]]

\* the ranking of generateModelSelectionForStage2: filter, sort, rank
RankModels(candidates) == AssignRanks(SortModels(FilterFiniteModels(candidates)))

\* the shortest series generateModelSelectionForStage2 renders a ranking for
MinPricesSelection == 10

\* ---------------------------------------------------------------------
\* Business-day stepping.  A calendar date is the number of its day, day 0
\* being a Sunday; an instant is a number of hours since 00:00 UTC of day 0.
\* ---------------------------------------------------------------------
HoursPerDay == 24
\* new Date('YYYY-MM-DD'): 00:00 UTC of that day
ParseIsoDate(day) == day * HoursPerDay
\* date.getDay() in a host whose local time is UTC + offset hours
GetDay(instant, offset) == ((instant + offset) \div HoursPerDay) % 7
\* date.toISOString().split('T')[0]: the UTC calendar day
ToIsoDate(instant) == instant \div HoursPerDay

\* the while loop of getNextBusinessDay; date.setDate(date.getDate() + 1)
\* moves the instant one local day ahead
RECURSIVE BusinessDayLoop(_, _, _, _)
BusinessDayLoop(instant, addedDays, daysAhead, offset) ==
    IF addedDays >= daysAhead THEN instant
    ELSE LET next == instant + HoursPerDay
         IN BusinessDayLoop(next,
                IF GetDay(next, offset) # 0 /\ GetDay(next, offset) # 6
                THEN addedDays + 1 ELSE addedDays,
                daysAhead, offset)

\* getNextBusinessDay(lastDate, daysAhead)
getNextBusinessDay(lastDate, daysAhead, offset) ==
    ToIsoDate(BusinessDayLoop(ParseIsoDate(lastDate), 0, daysAhead, offset))

\* ---------------------------------------------------------------------
\* Forecasting
\* ---------------------------------------------------------------------
\* forecastHorizon
ForecastHorizon == 12
\* the number of rows of a forecast table: slice(0, 6)
ShownRows == 6
\* the normal quantiles of the 80% and 95% intervals
Z80 == Num(12816)
Z95 == Num(19600)
\* a table cell rendered as a dash
Dash == [k |-> "dash", v |-> 0]

\* prices[prices.length - 1] (undefined, which acts as NaN, on an empty array)
LastPrice(prices) == IF Len(prices) = 0 THEN NaN ELSE prices[Len(prices)]
\* prices.length > 1 ? prices[n-1] - prices[n-2] : 0
LastDiff(prices) ==
    IF Len(prices) > 1 THEN Sub(prices[Len(prices)], prices[Len(prices) - 1]) ELSE Zero

\* nRes > 0 ? residuals.reduce((acc, v) => acc + v*v, 0) / nRes : NaN
ResidualSigma2(residuals) ==
    IF Len(residuals) > 0 THEN Div(SumSqArr(residuals), FromInt(Len(residuals))) ELSE NaN

\* diffForecasts[0 .. h-1]
RECURSIVE DiffForecasts(_, _, _)
DiffForecasts(phi, lastDiff, h) ==
    LET next(prev) ==
            Append(prev, IF IsFinite(phi)
                         THEN Mul(phi, IF h = 1 THEN lastDiff ELSE prev[h - 1])
                         ELSE NaN)
    IN IF h = 0 THEN <<>> ELSE next(DiffForecasts(phi, lastDiff, h - 1))

\* arr.reduce((a, b) => a + (isFinite(b) ? b : 0), 0)
SumFinite(arr) ==
    SumRange([i \in 1..Len(arr) |-> IF IsFinite(arr[i]) THEN arr[i] ELSE Zero],
             1, Len(arr))

\* a level forecast that leaves out the difference forecast of its own horizon
LevelForecastLagged(lastPrice, diffForecasts, h) ==
    IF IsFinite(lastPrice)
    THEN Add(lastPrice, SumFinite(SubSeq(diffForecasts, 1, h - 1)))
    ELSE NaN

\* the level forecast of horizon h
LevelForecast(lastPrice, diffForecasts, h) ==
    IF IsFinite(lastPrice)
    THEN Add(lastPrice, SumFinite(SubSeq(diffForecasts, 1, h)))
    ELSE NaN

\* weight = (1 - Math.pow(phi, j)) / (1 - phi)
ARWeight(phi, j) == Div(Sub(One, MathPowInt(phi, j)), Sub(One, phi))

\* the sum over m = 1..h of weight(h - m + 1)^2
WeightSquares(phi, h) ==
    SumRange([m \in 1..h |-> Mul(ARWeight(phi, h - m + 1), ARWeight(phi, h - m + 1))],
             1, h)

\* varSum of horizon h
ForecastVarSum(phi, sigma2, h) ==
    IF IsFinite(sigma2) /\ IsFinite(phi) THEN WeightSquares(phi, h) ELSE NaN

\* the cell isFinite(x) ? x.toFixed(..) : dash
Shown(x) == IF IsFinite(x) THEN x ELSE Dash

\* { lower: yHat - z * se, upper: yHat + z * se }
Interval(yHat, se, z) ==
    [lower |-> Sub(yHat, Mul(z, se)), upper |-> Add(yHat, Mul(z, se))]

\* the cell of an interval: both ends, or a dash when either is not finite
ShownInterval(c) ==
    IF IsFinite(c.lower) /\ IsFinite(c.upper) THEN c
    ELSE [lower |-> Dash, upper |-> Dash]

\* seForecasts[h-1] = isFinite(varSum) ? Math.sqrt(sigma2 * varSum) : NaN
RealSE(phi, sigma2, h) ==
    LET guarded(varSum) ==
            IF IsFinite(varSum) THEN MathSqrt(Mul(sigma2, varSum)) ELSE NaN
    IN guarded(ForecastVarSum(phi, sigma2, h))

\* generateRealForecastsForStage5: the arrays and the rendered table
RealForecasts(data, offset) ==
    LET ic(yHat, se, z) ==
            IF IsFinite(se) THEN Interval(yHat, se, z)
            ELSE [lower |-> NaN, upper |-> NaN]
        row(h, yHat, se) ==
            [h |-> h,
             date |-> getNextBusinessDay(data[Len(data)].date, h, offset),
             forecast |-> Shown(yHat),
             se |-> Shown(se),
             ic80 |-> ShownInterval(ic(yHat, se, Z80)),
             ic95 |-> ShownInterval(ic(yHat, se, Z95))]
        summary(yHat, se) ==
            [forecast |-> Shown(yHat),
             ic95 |-> IF IsFinite(se) /\ IsFinite(yHat) THEN Interval(yHat, se, Z95)
                      ELSE [lower |-> Dash, upper |-> Dash]]
        table(phi, sigma2, lastPrice, lastDiff, diffForecasts, pointForecasts,
              seForecasts) ==
            [op |-> "generateRealForecastsForStage5", threw |-> FALSE,
             phi |-> phi, sigma2 |-> sigma2,
             lastPrice |-> lastPrice, lastDiff |-> lastDiff,
             diffForecasts |-> diffForecasts,
             pointForecasts |-> pointForecasts,
             seForecasts |-> seForecasts,
             rows |-> [h \in 1..ShownRows |->
                          row(h, pointForecasts[h], seForecasts[h])],
             summary |-> summary(pointForecasts[ForecastHorizon],
                                 seForecasts[ForecastHorizon])]
        levels(phi, sigma2, lastPrice, lastDiff, diffForecasts) ==
            table(phi, sigma2, lastPrice, lastDiff, diffForecasts,
                  [h \in 1..ForecastHorizon |->
                      LevelForecast(lastPrice, diffForecasts, h)],
                  [h \in 1..ForecastHorizon |-> RealSE(phi, sigma2, h)])
        differences(phi, sigma2, lastPrice, lastDiff) ==
            levels(phi, sigma2, lastPrice, lastDiff,
                   DiffForecasts(phi, lastDiff, ForecastHorizon))
        fitted(prices, est) ==
            differences(est.phi, ResidualSigma2(est.residuals), LastPrice(prices),
                        LastDiff(prices))
        mapped(prices) == fitted(prices, fitAR1OnDiff(prices))
    IN IF Len(data) = 0
       THEN [op |-> "generateRealForecastsForStage5", threw |-> TRUE]
       ELSE mapped([i \in 1..Len(data) |-> data[i].price])

\* sigma * Math.sqrt(1 + 0.1 * i)
FallbackSE(sigma, i) == Mul(sigma, MathSqrt(Add(One, Num((Scale \div 10) * i))))

\* se = isFinite(varSum) ? Math.sqrt(sigma2 * varSum)
\*                       : sigma * Math.sqrt(1 + 0.1 * (h - 1))
GenerationSE(phi, sigma2, sigma, h) ==
    LET guarded(varSum) ==
            IF IsFinite(varSum) THEN MathSqrt(Mul(sigma2, varSum))
            ELSE FallbackSE(sigma, h - 1)
    IN guarded(ForecastVarSum(phi, sigma2, h))

\* generateForecastGenerationForStage5: the arrays and the rendered table
ForecastGeneration(data) ==
    LET row(h, forecast, seUsed, sigma) ==
            [h |-> h,
             forecast |-> forecast,
             se |-> FallbackSE(sigma, h - 1),
             ic80 |-> Interval(forecast, seUsed, Z80),
             ic95 |-> Interval(forecast, seUsed, Z95)]
        table(phi, sigma2, sigma, lastPrice, lastDiff, diffForecasts, forecasts,
              seUsed) ==
            [op |-> "generateForecastGenerationForStage5", threw |-> FALSE,
             phi |-> phi, sigma2 |-> sigma2,
             lastPrice |-> lastPrice, lastDiff |-> lastDiff,
             diffForecasts |-> diffForecasts,
             pointForecasts |-> forecasts,
             seForecasts |-> seUsed,
             rows |-> [h \in 1..ShownRows |-> row(h, forecasts[h], seUsed[h], sigma)],
             summary |-> [forecast |-> forecasts[ForecastHorizon],
                          halfWidth |-> Mul(Mul(Z95, sigma),
                                            MathSqrt(Add(One, Num((Scale \div 10)
                                                     * (ForecastHorizon - 1)))))]]
        levels(phi, sigma2, sigma, lastPrice, lastDiff, diffForecasts) ==
            table(phi, sigma2, sigma, lastPrice, lastDiff, diffForecasts,
                  [h \in 1..ForecastHorizon |->
                      LevelForecast(lastPrice, diffForecasts, h)],
                  [h \in 1..ForecastHorizon |-> GenerationSE(phi, sigma2, sigma, h)])
        differences(phi, sigma2, sigma, lastPrice, lastDiff) ==
            levels(phi, sigma2, sigma, lastPrice, lastDiff,
                   DiffForecasts(phi, lastDiff, ForecastHorizon))
        scale(prices, phi, sigma2) ==
            differences(phi, sigma2,
                        IF IsFinite(sigma2) THEN MathSqrt(sigma2)
                        ELSE MathSqrt(Mul(calculateDescriptiveStats(prices).variance,
                                          Num(3 * (Scale \div 10)))),
                        LastPrice(prices), LastDiff(prices))
        fitted(prices, est) == scale(prices, est.phi, ResidualSigma2(est.residuals))
        mapped(prices) == fitted(prices, fitAR1OnDiff(prices))
    IN mapped([i \in 1..Len(data) |-> data[i].price])

\* ---------------------------------------------------------------------
\* Backtesting
\* ---------------------------------------------------------------------
\* the largest holdout of the backtest
MaxHoldout == 12
\* the smallest holdout of the backtest
MinHoldout == 3

\* a slice that also takes the element at its end position
JsSliceInclusive(arr, start, end) ==
    LET position(p) ==
            IF p < 0 THEN (IF Len(arr) + p < 0 THEN 0 ELSE Len(arr) + p)
            ELSE IF p > Len(arr) THEN Len(arr) ELSE p
    IN SubSeq(arr, position(start) + 1,
              IF position(end) < Len(arr) THEN position(end) + 1 ELSE Len(arr))

\* arr.slice(start, end) with 0-based positions; a negative position counts
\* from the end of the array
JsSlice(arr, start, end) ==
    LET position(p) ==
            IF p < 0 THEN (IF Len(arr) + p < 0 THEN 0 ELSE Len(arr) + p)
            ELSE IF p > Len(arr) THEN Len(arr) ELSE p
    IN SubSeq(arr, position(start) + 1, position(end))

\* generatePrecisionEvaluationForStage5: the holdout, the one-step predictions
\* and the error measures
PrecisionEvaluation(prices) ==
    LET yHat(lastPriceTrain, predDiff) ==
            IF IsFinite(lastPriceTrain) /\ IsFinite(predDiff)
            THEN Add(lastPriceTrain, predDiff) ELSE NaN
        predict(train, phi) ==
            yHat(LastPrice(train),
                 IF IsFinite(phi) THEN Mul(phi, LastDiff(train)) ELSE NaN)
        refit(train) == predict(train, fitAR1OnDiff(train).phi)
        ape(r) ==
            IF Gt(MathAbs(r.actual), Zero)
            THEN Div(MathAbs(r.err), MathAbs(r.actual)) ELSE NaN
        measures(n, horizonTest, startTest, actuals, preds, rows, count) ==
            [op |-> "generatePrecisionEvaluationForStage5",
             n |-> n, horizonTest |-> horizonTest, startTest |-> startTest,
             actuals |-> actuals, preds |-> preds, rows |-> rows, count |-> count,
             mae |-> IF count # 0
                     THEN Div(SumArr([k \in 1..count |-> MathAbs(rows[k].err)]),
                              FromInt(count))
                     ELSE NaN,
             rmse |-> IF count # 0
                      THEN MathSqrt(Div(SumArr([k \in 1..count |->
                                                   Mul(rows[k].err, rows[k].err)]),
                                        FromInt(count)))
                      ELSE NaN,
             mape |-> IF count # 0
                      THEN Mul(FromInt(100),
                               Div(SumFinite([k \in 1..count |-> ape(rows[k])]),
                                   FromInt(count)))
                      ELSE NaN]
        counted(n, horizonTest, startTest, actuals, preds, rows) ==
            measures(n, horizonTest, startTest, actuals, preds, rows, Len(rows))
        paired(n, horizonTest, startTest, actuals, preds) ==
            counted(n, horizonTest, startTest, actuals, preds,
                    SelectSeq([k \in 1..Len(actuals) |->
                                  [idx |-> startTest + k, actual |-> actuals[k],
                                   pred |-> preds[k],
                                   err |-> Sub(actuals[k], preds[k])]],
                              LAMBDA r : IsFinite(r.actual) /\ IsFinite(r.pred)))
        holdout(n, horizonTest, startTest) ==
            paired(n, horizonTest, startTest, JsSlice(prices, startTest, n),
                   [j \in 1..(n - startTest) |->
                       refit(JsSlice(prices, 0, startTest + j - 1))])
        horizon(n, horizonTest) == holdout(n, horizonTest, n - horizonTest)
        tenth(n, floor) ==
            horizon(n, IF floor < MinHoldout THEN MinHoldout
                       ELSE IF floor > MaxHoldout THEN MaxHoldout ELSE floor)
    IN tenth(Len(prices), Len(prices) \div 10)

\* a test that also flags a price on a bound
IsOutlierInclusive(price, lowerBound, upperBound) ==
    Le(price, lowerBound) \/ Ge(price, upperBound)

\* price < lowerBound || price > upperBound
IsOutlier(price, lowerBound, upperBound) ==
    Lt(price, lowerBound) \/ Gt(price, upperBound)

\* detectOutliers(data) on a numeric array
detectOutliers(prices) ==
    LET flagged(lowerBound, upperBound) ==
            SelectSeq([i \in 1..Len(prices) |->
                          [index |-> i - 1, price |-> prices[i],
                           type |-> IF Lt(prices[i], lowerBound) THEN "inferior"
                                    ELSE "superior"]],
                      LAMBDA o : IsOutlier(o.price, lowerBound, upperBound))
        bounds(q1, q3, iqr) ==
            flagged(Sub(q1, Mul(Num(15000), iqr)), Add(q3, Mul(Num(15000), iqr)))
        quartiles(stats) == bounds(stats.q1, stats.q3, Sub(stats.q3, stats.q1))
    IN quartiles(calculateDescriptiveStats(prices))

\* ---------------------------------------------------------------------
\* The application state
\* ---------------------------------------------------------------------
VARIABLES
    dollarData,   \* the global array of observations, ascending by date
    hostOffset,   \* the host's local time zone, in hours east of UTC
    appPhase,     \* "loading" until initializeApp has awaited the loader
    output,       \* what the last routine returned or rendered
    currentStage, \* the selected stage, Null when none is
    currentPoint, \* the selected point of the stage, Null when none is
    nestedMenu,   \* the stage whose points are the links of #nestedMenu
    nestedActive, \* whether #nestedSidebar carries the class active
    contentBody,  \* the view in #contentBody and what was written into it
    timers        \* the callbacks setTimeout holds, in the order they will fire

\* the navigation state
nav == <<currentStage, currentPoint, nestedMenu, nestedActive, contentBody, timers>>
vars == <<dollarData, hostOffset, appPhase, output, nav>>

\* the prices a data file may hold and the longest series enumerated in full
PriceValues == {1, 2, 3}
MaxLen == 4
ShortSeries == UNION {[1..n -> PriceValues] : n \in 0..MaxLen}
\* longer series, which reach the diagnostics' and the ranking's sample sizes
LongSeries ==
    { <<1, 2, 1, 3, 2, 2, 1, 3, 3, 2>>,
      <<2, 3, 3, 1, 2, 1, 1, 3, 2, 3, 1, 2, 2>>,
      <<1, 3, 2, 2, 3, 1, 2, 3, 1, 1, 2, 3, 3, 2, 1, 2, 1, 3, 2, 3, 1, 2, 2, 3>> }
\* the series of the worked forecast: phi = 0.5, last difference 2, last price 100
ExampleSeries == { <<94, 98, 100>> }
\* the day of the last observation: one full week, Sunday to Saturday
StartDays == 7..13
LastMonday == CHOOSE day \in StartDays : day % 7 = 1
LastFriday == CHOOSE day \in StartDays : day % 7 = 5
\* hosts west of, at and east of UTC
HostOffsets == {-5, 0, 2}
\* the horizons getNextBusinessDay is asked for
MaxDaysAhead == 12

\* let currentStage = null (stage numbers are 1.., point indices 0..)
Null == -1
\* the keys of stagesData
Stages == 1..5
\* stagesData[stageNumber].points.length
PointCount(stageNumber) == IF stageNumber = 1 THEN 4 ELSE 3
\* a view of the content area: <<stage, Null>> is the view of a stage,
\* <<stage, point>> the view of a point, WelcomeView the welcome page
WelcomeView == <<Null, Null>>
StageView(stageNumber) == <<stageNumber, Null>>

\* the ids of the elements in the HTML of a view that a render routine looks
\* up: stagesData[stage].content.details for a stage, the template of
\* showPointContent for a point (the welcome page holds none of them)
ViewContainers(view) ==
    CASE view = <<1, Null>> ->
             {"real-stats-container", "stage1-series-canvas", "stage1-hist-canvas",
              "stage1-box-canvas", "stage1-decomp-canvas", "real-acf-pacf-container"}
      [] view = <<3, Null>> -> {"real-estimation-container"}
      [] view = <<4, Null>> -> {"real-validation-container"}
      [] view = <<5, Null>> -> {"real-forecasts-container"}
      [] view = <<1, 0>> -> {"real-stats-container"}
      [] view = <<1, 1>> ->
             {"stage1-series-canvas", "stage1-hist-canvas", "stage1-box-canvas",
              "stage1-decomp-canvas", "stage1-meanvar-canvas"}
      [] view = <<1, 2>> ->
             {"pattern-trend-result", "pattern-trend-expl", "pattern-seasonal-result",
              "pattern-seasonal-expl", "pattern-cyclic-result", "pattern-cyclic-expl",
              "pattern-irregular-result", "pattern-irregular-expl",
              "stage1-pattern-series-canvas"}
      [] view = <<1, 3>> ->
             {"stationarity-visual-result", "stationarity-visual-expl",
              "stationarity-cv-mean", "stationarity-cv-var",
              "stationarity-trend-slope", "stationarity-stat-result",
              "stage1-stationarity-series-canvas",
              "stage1-stationarity-meanvar-canvas"}
      [] view = <<2, 0>> -> {"real-acf-pacf-container"}
      [] view = <<2, 1>> -> {"model-selection-ranking-container"}
      [] view = <<3, 1>> -> {"real-estimation-container"}
      [] view = <<3, 2>> -> {"fit-metrics-container"}
      [] view = <<4, 0>> -> {"residual-diagnostics-container"}
      [] view = <<4, 1>> -> {"statistical-tests-container"}
      [] view = <<4, 2>> -> {"stability-analysis-container"}
      [] view = <<5, 0>> -> {"generation-forecasts-container"}
      [] view = <<5, 1>> -> {"precision-evaluation-container"}
      [] view = <<5, 2>> -> {"interpretation-container"}
      [] OTHER -> {}

\* the routine a view hands to setTimeout(.., 100), "none" when it hands none
ViewRoutine(view) ==
    CASE view \in {<<1, Null>>, <<1, 0>>, <<1, 1>>} -> "generateRealStatsForStage1"
      [] view \in {<<2, Null>>, <<2, 0>>} -> "generateRealACFPACFForStage2"
      [] view \in {<<3, Null>>, <<3, 1>>} -> "generateRealEstimationForStage3"
      [] view = <<4, Null>> -> "generateRealValidationForStage4"
      [] view = <<5, Null>> -> "generateRealForecastsForStage5"
      [] view = <<1, 2>> -> "generateRealPatternsForStage1"
      [] view = <<1, 3>> -> "generateStationarityAnalysisForStage1"
      [] view = <<2, 1>> -> "generateModelSelectionForStage2"
      [] view = <<3, 2>> -> "generateFitMetricsForStage3"
      [] view = <<4, 0>> -> "generateResidualDiagnosticsForStage4"
      [] view = <<4, 1>> -> "generateStatisticalTestsForStage4"
      [] view = <<4, 2>> -> "generateStabilityAnalysisForStage4"
      [] view = <<5, 0>> -> "generateForecastGenerationForStage5"
      [] view = <<5, 1>> -> "generatePrecisionEvaluationForStage5"
      [] view = <<5, 2>> -> "generateInterpretationForStage5"
      [] OTHER -> "none"

\* the ids a render routine looks up with document.getElementById and writes
\* into when the element exists
RoutineTargets(routine) ==
    CASE routine = "generateRealStatsForStage1" ->
             {"real-stats-container", "stage1-series-canvas", "stage1-hist-canvas",
              "stage1-box-canvas", "stage1-decomp-canvas", "stage1-meanvar-canvas"}
      [] routine = "generateRealACFPACFForStage2" -> {"real-acf-pacf-container"}
      [] routine = "generateRealEstimationForStage3" -> {"real-estimation-container"}
      [] routine = "generateRealValidationForStage4" -> {"real-validation-container"}
      [] routine = "generateRealForecastsForStage5" -> {"real-forecasts-container"}
      [] routine = "generateRealPatternsForStage1" ->
             {"pattern-trend-result", "pattern-trend-expl", "pattern-seasonal-result",
              "pattern-seasonal-expl", "pattern-cyclic-result", "pattern-cyclic-expl",
              "pattern-irregular-result", "pattern-irregular-expl",
              "stage1-pattern-series-canvas"}
      [] routine = "generateStationarityAnalysisForStage1" ->
             {"stationarity-visual-result", "stationarity-visual-expl",
              "stationarity-cv-mean", "stationarity-cv-var",
              "stationarity-trend-slope", "stationarity-stat-result",
              "stage1-stationarity-series-canvas",
              "stage1-stationarity-meanvar-canvas"}
      [] routine = "generateModelSelectionForStage2" ->
             {"model-selection-ranking-container"}
      [] routine = "generateFitMetricsForStage3" -> {"fit-metrics-container"}
      [] routine = "generateResidualDiagnosticsForStage4" ->
             {"residual-diagnostics-container"}
      [] routine = "generateStatisticalTestsForStage4" ->
             {"statistical-tests-container"}
      [] routine = "generateStabilityAnalysisForStage4" ->
             {"stability-analysis-container"}
      [] routine = "generateForecastGenerationForStage5" ->
             {"generation-forecasts-container"}
      [] routine = "generatePrecisionEvaluationForStage5" ->
             {"precision-evaluation-container"}
      [] routine = "generateInterpretationForStage5" -> {"interpretation-container"}
      [] OTHER -> {}

\* #contentBody right after its innerHTML was set to the HTML of a view
Rendered(view) == [view |-> view, filled |-> {}]

NoOutput == [op |-> "none"]

\* new Date(date).getTime() of the date string of a row, in hours.  A date
\* >= 0 is the calendar day of that number.  A negative date stands for a
\* string parseCustomDate builds from a token that names no calendar day:
\* -1 for a day no host reads (day 00, day 32), -d (d > 1) for the missing
\* last day of a short month, which a lenient host reads as day d, the first
\* day of the next month, and a strict host does not read (Invalid Date, NaN)
DateTime(date, lenient) ==
    IF date >= 0 THEN FromInt(ParseIsoDate(date))
    ELSE IF lenient /\ date < -1 THEN FromInt(ParseIsoDate(-date))
    ELSE NaN

\* rows.sort((a, b) => new Date(a.date) - new Date(b.date)) as the host sorts
\* an array shorter than 64, or one that is a single run: the leading run is
\* found (and reversed when strictly descending), then every later row is put
\* in place by binary insertion.  A comparator value NaN counts as 0.
SortByDate(rows, lenient) ==
    LET order(x, y) ==
            SignOf(Sub(DateTime(x.date, lenient), DateTime(y.date, lenient)))
        breaks(descending) ==
            {idx \in 3..Len(rows) :
                IF descending THEN order(rows[idx], rows[idx - 1]) >= 0
                ELSE order(rows[idx], rows[idx - 1]) < 0}
        first(stops) ==
            IF stops = {} THEN Len(rows)
            ELSE (CHOOSE i \in stops : \A j \in stops : i <= j) - 1
        reversed(runLength) ==
            [i \in 1..Len(rows) |->
                IF i <= runLength THEN rows[runLength + 1 - i] ELSE rows[i]]
        RECURSIVE search(_, _, _, _)
        search(a, pivot, left, right) ==
            IF left < right
            THEN IF order(pivot, a[left + ((right - left) \div 2)]) < 0
                 THEN search(a, pivot, left, left + ((right - left) \div 2))
                 ELSE search(a, pivot, left + ((right - left) \div 2) + 1, right)
            ELSE left
        place(a, start, pos) ==
            [i \in 1..Len(a) |->
                IF i < pos \/ i > start THEN a[i]
                ELSE IF i = pos THEN a[start] ELSE a[i - 1]]
        RECURSIVE insertFrom(_, _)
        insertFrom(a, start) ==
            IF start > Len(a) THEN a
            ELSE insertFrom(place(a, start, search(a, a[start], 1, start)), start + 1)
        run(descending, runLength) ==
            insertFrom(IF descending THEN reversed(runLength) ELSE rows, runLength + 1)
        counted(descending) == run(descending, first(breaks(descending)))
    IN IF Len(rows) < 2 THEN rows
       ELSE counted(order(rows[2], rows[1]) < 0)

\* rows.map((r, i) => ({date, price, variation, variationPercent}))
Enriched(rows) ==
    [i \in 1..Len(rows) |->
        LET enrich(variation) ==
                [date |-> rows[i].date,
                 price |-> rows[i].price,
                 variation |-> variation,
                 variationPercent |->
                     IF i > 1 /\ ~StrictEq(rows[i - 1].price, Zero)
                     THEN Mul(Div(variation, rows[i - 1].price), FromInt(100))
                     ELSE Zero]
        IN enrich(IF i > 1 THEN Sub(rows[i].price, rows[i - 1].price) ELSE Zero)]

\* the rows of a data file: the prices on consecutive days ending on lastDay
FileRows(series, lastDay) ==
    [i \in 1..Len(series) |->
        [date |-> lastDay - (Len(series) - i), price |-> FromInt(series[i])]]

\* the loop over the lines of loadDatasetFromFile: a line whose date token
\* parseCustomDate does not read, or whose price is not finite, is skipped
ParseLines(lines) ==
    LET kept == SelectSeq(lines, LAMBDA l : l.parsed /\ IsFinite(l.price))
    IN [i \in 1..Len(kept) |-> [date |-> kept[i].date, price |-> kept[i].price]]

\* dollarData.map(d => d.price)
Prices == [i \in 1..Len(dollarData) |-> dollarData[i].price]

\* the state when the script has been evaluated, on a host of one of `offsets'
InitOn(offsets) ==
    /\ dollarData = <<>>
    /\ hostOffset \in offsets
    /\ appPhase = "loading"
    /\ output = NoOutput
    /\ currentStage = Null
    /\ currentPoint = Null
    /\ nestedMenu = Null
    /\ nestedActive = FALSE
    /\ contentBody = Rendered(WelcomeView)
    /\ timers = <<>>

\* on a host at UTC
Init == InitOn({0})
\* on any of the hosts
InitAnyHost == InitOn(HostOffsets)

\* loadDatasetFromFile, the fetch succeeding
LoadFrom(seriesSet, days) ==
    /\ appPhase = "loading"
    /\ \E series \in seriesSet, lastDay \in days :
          dollarData' = Enriched(SortByDate(FileRows(series, lastDay), TRUE))
    /\ appPhase' = "ready"
    /\ UNCHANGED <<hostOffset, output, nav>>

\* loadDatasetFromFile, the fetch failing: the error is logged, the data stay empty
LoadFails ==
    /\ appPhase = "loading"
    /\ appPhase' = "ready"
    /\ UNCHANGED <<dollarData, hostOffset, output, nav>>

\* showStageContent / showPointContent: the content area is replaced by the
\* view's empty containers, which the view's routine then fills
ShowContent ==
    /\ appPhase = "ready"
    /\ output # NoOutput
    /\ output' = NoOutput
    /\ UNCHANGED <<dollarData, hostOffset, appPhase, nav>>

\* a routine of the shown view run on the loaded data
Returns(result) ==
    /\ appPhase = "ready"
    /\ output = NoOutput
    /\ output' = result
    /\ UNCHANGED <<dollarData, hostOffset, appPhase, nav>>

CallFitAR1OnDiff ==
    Returns([op |-> "fitAR1OnDiff", result |-> fitAR1OnDiff(Prices)])
CallFitMA1OnDiff ==
    Returns([op |-> "fitMA1OnDiff", result |-> fitMA1OnDiff(Prices)])
CallFitARMA11OnDiff ==
    Returns([op |-> "fitARMA11OnDiff", result |-> fitARMA11OnDiff(Prices)])
CallAdfTest ==
    Returns([op |-> "adfTest", result |-> adfTest(Prices)])

\* generateStatisticalTestsForStage4
StatisticalTests(prices) ==
    LET tests(residuals) ==
            [op |-> "generateStatisticalTestsForStage4",
             n |-> Len(residuals),
             jb |-> computeJarqueBera(residuals),
             lb10 |-> ljungBoxTest(residuals, 10, 1),
             lb15 |-> ljungBoxTest(residuals, 15, 1),
             lb20 |-> ljungBoxTest(residuals, 20, 1),
             arch |-> archLMTest(residuals, 1)]
    IN tests(fitAR1OnDiff(prices).residuals)
generateStatisticalTestsForStage4 == Returns(StatisticalTests(Prices))

\* generateModelSelectionForStage2
ModelSelection(prices) ==
    IF Len(prices) < MinPricesSelection
    THEN [op |-> "generateModelSelectionForStage2", rendered |-> FALSE,
          candidates |-> <<>>, models |-> <<>>]
    ELSE LET ranking(candidates) ==
                 [op |-> "generateModelSelectionForStage2", rendered |-> TRUE,
                  candidates |-> candidates, models |-> RankModels(candidates)]
         IN ranking(ModelCandidates(fitAR1OnDiff(prices), fitMA1OnDiff(prices),
                                    fitARMA11OnDiff(prices)))
generateModelSelectionForStage2 == Returns(ModelSelection(Prices))

generateRealForecastsForStage5 == Returns(RealForecasts(dollarData, hostOffset))
generateForecastGenerationForStage5 == Returns(ForecastGeneration(dollarData))

CallGetNextBusinessDay ==
    \E lastDate \in StartDays, daysAhead \in 1..MaxDaysAhead :
        Returns([op |-> "getNextBusinessDay", lastDate |-> lastDate,
                 daysAhead |-> daysAhead,
                 result |-> getNextBusinessDay(lastDate, daysAhead, hostOffset)])

\* the fitters and the diagnostics on every loaded series (they never read the
\* dates nor the host's time zone)
LoadSeries == LoadFrom(ShortSeries \cup LongSeries \cup ExampleSeries, {LastFriday})
Next ==
    \/ LoadSeries
    \/ LoadFails
    \/ ShowContent
    \/ CallFitAR1OnDiff
    \/ CallFitMA1OnDiff
    \/ CallFitARMA11OnDiff
    \/ CallAdfTest
    \/ generateStatisticalTestsForStage4
Spec == Init /\ [][Next]_vars

\* the forecast routines on any host, the last observation on a Monday or a Friday
LoadDated == LoadFrom(ShortSeries \cup ExampleSeries, {LastMonday, LastFriday})
NextForecast ==
    \/ LoadDated
    \/ LoadFails
    \/ ShowContent
    \/ generateRealForecastsForStage5
    \/ generateForecastGenerationForStage5
SpecForecast == InitAnyHost /\ [][NextForecast]_vars

\* business-day stepping from every day of the week
NextDate ==
    \/ LoadFails
    \/ ShowContent
    \/ CallGetNextBusinessDay
SpecDate == InitAnyHost /\ [][NextDate]_vars

\* the ranking on candidates of any criteria: the AIC and BIC values a fit may
\* report (finite, tied, NaN, infinite)
AicValues == {Num(50000), Num(70000), Num(100000), NaN, NInf}
BicValues == {Num(10000), Num(20000), NaN, PInf}
Criteria == [AIC : AicValues, BIC : BicValues]
CallRankModels ==
    /\ appPhase = "ready"
    /\ output = NoOutput
    /\ \E ar1 \in Criteria, ma1 \in Criteria, arma11 \in Criteria :
          output' = [op |-> "rankModels", rendered |-> TRUE,
                     candidates |-> ModelCandidates(ar1, ma1, arma11),
                     models |-> RankModels(ModelCandidates(ar1, ma1, arma11))]
    /\ UNCHANGED <<dollarData, hostOffset, appPhase, nav>>
LoadLong == LoadFrom(LongSeries \cup ExampleSeries, {LastFriday})
NextSel ==
    \/ LoadLong
    \/ LoadFails
    \/ ShowContent
    \/ CallRankModels
    \/ generateModelSelectionForStage2
SpecSel == Init /\ [][NextSel]_vars

\* the backtest on series of every holdout size: shorter than the holdout,
\* with the smallest holdout, with a tenth of the series, with the largest
PatternSeries(n) == [i \in 1..n |-> 1 + ((i * i + (i \div 3)) % 3)]
BacktestLengths == {0, 1, 2, 3, 4, 5, 7, 39, 40, 41, 58, 120, 131}
generatePrecisionEvaluationForStage5 == Returns(PrecisionEvaluation(Prices))
LoadBacktest ==
    LoadFrom({PatternSeries(n) : n \in BacktestLengths} \cup ExampleSeries,
             StartDays)
MaxLines == 3
\* the dates of the lines of a file: three days, a token of a day no host
\* reads, and the token of a missing month end, read as day 3 by a lenient host
LineDates == {1, 2, 3, -1, -3}
\* a line is a date token that parseCustomDate reads, with the text of a price,
\* or a line that parseCustomDate does not read
FileLines ==
    [date : LineDates, price : {FromInt(1), FromInt(2), NaN}, parsed : {TRUE}]
        \cup {[date |-> 1, price |-> FromInt(1), parsed |-> FALSE]}
FileTexts == UNION {[1..n -> FileLines] : n \in 0..MaxLines}

\* loadDatasetFromFile on any text, on a host that reads the date strings
\* leniently or strictly
LoadFile ==
    /\ appPhase = "loading"
    /\ \E lines \in FileTexts, lenient \in BOOLEAN :
          dollarData' = Enriched(SortByDate(ParseLines(lines), lenient))
    /\ appPhase' = "ready"
    /\ UNCHANGED <<hostOffset, output, nav>>

NextSeries ==
    \/ LoadBacktest
    \/ LoadFile
    \/ LoadFails
    \/ ShowContent
    \/ generatePrecisionEvaluationForStage5
SpecSeries == Init /\ [][NextSeries]_vars

\* ---------------------------------------------------------------------
\* The routines that take an array or a number: any array of numbers and any
\* number may be passed
\* ---------------------------------------------------------------------
MaxArrayLen == 4

\* an array argument sorted where it stands
ArgumentSortedInPlace(data) == SortAsc(data)

\* the array a routine was given, once the routine has returned: the routines
\* read it (data.filter, data.map, prices[i]) and sort only copies of it
\* ([...prices].sort), so it holds what it held
ArgumentAfterCall(data) == data
\* 0.1, 2, 3.0001, and entries that are not finite
ArrayValues == {Num(1000), FromInt(2), Num(30001), NaN, PInf}
MaxLag == 3
\* the array of the worked outlier example
ExampleArrays == { <<FromInt(1), FromInt(2), FromInt(3), FromInt(4), FromInt(5), FromInt(100)>> }
NumericArrays == UNION {[1..n -> ArrayValues] : n \in 0..MaxArrayLen} \cup ExampleArrays

CallCalculateDescriptiveStats ==
    /\ appPhase = "ready"
    /\ output = NoOutput
    /\ \E data \in NumericArrays :
          output' = [op |-> "calculateDescriptiveStats", data |-> data,
                     after |-> ArgumentAfterCall(data),
                     result |-> calculateDescriptiveStats(data)]
    /\ UNCHANGED <<dollarData, hostOffset, appPhase, nav>>

CallCalculateACF ==
    /\ appPhase = "ready"
    /\ output = NoOutput
    /\ \E data \in NumericArrays, maxLags \in 0..MaxLag :
          output' = [op |-> "calculateACF", data |-> data, maxLags |-> maxLags,
                     after |-> ArgumentAfterCall(data),
                     result |-> calculateACF(data, maxLags)]
    /\ UNCHANGED <<dollarData, hostOffset, appPhase, nav>>

CallCalculatePACF ==
    /\ appPhase = "ready"
    /\ output = NoOutput
    /\ \E data \in NumericArrays, maxLags \in 0..MaxLag :
          output' = [op |-> "calculatePACF", data |-> data, maxLags |-> maxLags,
                     after |-> ArgumentAfterCall(data),
                     result |-> calculatePACF(data, maxLags)]
    /\ UNCHANGED <<dollarData, hostOffset, appPhase, nav>>

CallDetectOutliers ==
    /\ appPhase = "ready"
    /\ output = NoOutput
    /\ \E data \in NumericArrays :
          output' = [op |-> "detectOutliers", data |-> data,
                     after |-> ArgumentAfterCall(data),
                     result |-> detectOutliers(data)]
    /\ UNCHANGED <<dollarData, hostOffset, appPhase, nav>>

\* the arguments of normalCdf: -3, -2.5, .., 3
MaxZHalves == 6
ZValues == {Num(h * (Scale \div 2)) : h \in (-MaxZHalves)..MaxZHalves}

CallNormalCdf ==
    /\ appPhase = "ready"
    /\ output = NoOutput
    /\ \E z \in ZValues :
          output' = [op |-> "normalCdf", z |-> z, result |-> normalCdf(z)]
    /\ UNCHANGED <<dollarData, hostOffset, appPhase, nav>>

\* the statistics passed to chiSquareUpperTailP: 0, 0.5, .., 6, with 1 to 3
\* degrees of freedom
MaxQHalves == 12
MaxDf == 3
QValues == {Num(h * (Scale \div 2)) : h \in 0..MaxQHalves}

CallChiSquareUpperTailP ==
    /\ appPhase = "ready"
    /\ output = NoOutput
    /\ \E Q \in QValues, df \in 1..MaxDf :
          output' = [op |-> "chiSquareUpperTailP", Q |-> Q, df |-> df,
                     result |-> chiSquareUpperTailP(Q, df)]
    /\ UNCHANGED <<dollarData, hostOffset, appPhase, nav>>

\* the lag-one autocorrelations passed to estimateThetaFromACF1: -1.2, -1.15,
\* .., 1.2
MaxRhoSteps == 24
RhoValues == {Num(s * (Scale \div 20)) : s \in (-MaxRhoSteps)..MaxRhoSteps}

CallEstimateThetaFromACF1 ==
    /\ appPhase = "ready"
    /\ output = NoOutput
    /\ \E rho1 \in RhoValues :
          output' = [op |-> "estimateThetaFromACF1", rho1 |-> rho1,
                     result |-> estimateThetaFromACF1(rho1)]
    /\ UNCHANGED <<dollarData, hostOffset, appPhase, nav>>

CallComputeAutocorrelations ==
    /\ appPhase = "ready"
    /\ output = NoOutput
    /\ \E values \in NumericArrays, m \in 1..MaxLag :
          output' = [op |-> "computeAutocorrelations", values |-> values, m |-> m,
                     result |-> computeAutocorrelations(values, m)]
    /\ UNCHANGED <<dollarData, hostOffset, appPhase, nav>>

LoadExample == LoadFrom(ExampleSeries, {LastFriday})

NextArrays ==
    \/ LoadExample
    \/ LoadFails
    \/ ShowContent
    \/ CallCalculateDescriptiveStats
    \/ CallCalculateACF
    \/ CallCalculatePACF
    \/ CallDetectOutliers
    \/ CallNormalCdf
    \/ CallChiSquareUpperTailP
    \/ CallEstimateThetaFromACF1
    \/ CallComputeAutocorrelations

SpecArrays == Init /\ [][NextArrays]_vars

\* ---------------------------------------------------------------------
\* Navigation: the stages, their points and the delayed render callbacks
\* ---------------------------------------------------------------------
\* the most callbacks that wait at one time
MaxPending == 2

\* setTimeout(() => routine(), 100) of a view: timers of one delay fire in the
\* order they were set, and nothing in the source clears one
Scheduled(view) ==
    IF ViewRoutine(view) = "none" THEN timers
    ELSE Append(timers, [routine |-> ViewRoutine(view), view |-> view])

\* a click on an item of the main menu: selectStage(stageNumber), with
\* updateMainSidebar, showNestedSidebar and showStageContent
selectStage ==
    /\ appPhase = "ready"
    /\ Len(timers) < MaxPending
    /\ \E stageNumber \in Stages :
          /\ currentStage' = stageNumber
          /\ currentPoint' = Null
          /\ nestedMenu' = stageNumber
          /\ nestedActive' = TRUE
          /\ contentBody' = Rendered(StageView(stageNumber))
          /\ timers' = Scheduled(StageView(stageNumber))
    /\ UNCHANGED <<dollarData, hostOffset, appPhase, output>>

\* a click on a link of the nested menu: the listener showNestedSidebar put
\* on it calls selectPoint(stageNumber, index) with the stage the menu was
\* built for; the links stay in the document when the sidebar is closed
selectPoint ==
    /\ appPhase = "ready"
    /\ Len(timers) < MaxPending
    /\ nestedMenu # Null
    /\ \E pointIndex \in 0..(PointCount(nestedMenu) - 1) :
          /\ currentPoint' = pointIndex
          /\ contentBody' = Rendered(<<nestedMenu, pointIndex>>)
          /\ timers' = Scheduled(<<nestedMenu, pointIndex>>)
    /\ UNCHANGED <<dollarData, hostOffset, appPhase, output, currentStage,
                   nestedMenu, nestedActive>>

\* a click on #closeSidebar, or a resize to a narrow window while the sidebar
\* is open: closeNestedSidebar(), with showWelcomeContent
closeNestedSidebar ==
    /\ appPhase = "ready"
    /\ nestedActive' = FALSE
    /\ contentBody' = Rendered(WelcomeView)
    /\ currentStage' = Null
    /\ currentPoint' = Null
    /\ UNCHANGED <<dollarData, hostOffset, appPhase, output, nestedMenu, timers>>

\* the oldest waiting callback fires: its routine writes into each of the
\* elements it looks up that the document then holds, and into nothing else
RenderCallback ==
    /\ timers # <<>>
    /\ contentBody' =
          [contentBody EXCEPT !.filled =
              @ \cup {[id |-> id, view |-> timers[1].view,
                       routine |-> timers[1].routine] :
                         id \in RoutineTargets(timers[1].routine)
                                \cap ViewContainers(contentBody.view)}]
    /\ timers' = Tail(timers)
    /\ UNCHANGED <<dollarData, hostOffset, appPhase, output, currentStage,
                   currentPoint, nestedMenu, nestedActive>>

\* navigation over a loaded series
NextNav ==
    \/ LoadExample
    \/ selectStage
    \/ selectPoint
    \/ closeNestedSidebar
    \/ RenderCallback
SpecNav == Init /\ [][NextNav]_vars

\* ---------------------------------------------------------------------
\* Properties
\* ---------------------------------------------------------------------
FitterOps == {"fitAR1OnDiff", "fitMA1OnDiff", "fitARMA11OnDiff"}
\* the number of first differences of the loaded series
NumDifferences == IF Len(dollarData) = 0 THEN 0 ELSE Len(dollarData) - 1
\* a p-value: NaN or a number in [0, 1]
IsPValue(p) == IsNaN(p) \/ (p.k = "num" /\ p.v >= 0 /\ p.v <= Scale)

\* C1: every p-value a diagnostic or fitting routine returns (adfTest,
\* computeJarqueBera, ljungBoxTest, archLMTest, the two-sided p-value of
\* fitAR1OnDiff) is NaN or a number in [0, 1].
C1_PValuesInUnitInterval ==
    /\ output.op = "adfTest" => IsPValue(output.result.pValue)
    /\ output.op = "fitAR1OnDiff" => IsPValue(output.result.pValue)
    /\ output.op = "generateStatisticalTestsForStage4" =>
          /\ IsPValue(output.jb.pValue)
          /\ IsPValue(output.lb10.pValue)
          /\ IsPValue(output.lb15.pValue)
          /\ IsPValue(output.lb20.pValue)
          /\ IsPValue(output.arch.pValue)

\* C2: a fitter that accepts a series whose residual variance is zero reports
\* its log-likelihood, AIC and BIC as NaN, never as an infinity.
C2_ZeroVarianceGivesNaN ==
    (output.op \in FitterOps /\ StrictEq(output.result.sigma2, Zero)) =>
        /\ IsNaN(output.result.AIC)
        /\ IsNaN(output.result.BIC)
        /\ output.op # "fitAR1OnDiff" => IsNaN(output.result.logL)

\* C3: a diagnostic test on too small a sample returns NaN for its statistic
\* and for its p-value: Jarque-Bera for n < 8, Ljung-Box for n < m + 1,
\* ARCH-LM for n < m + 2, and adfTest on a series of length 0, 1 or 2.
C3_SmallSamplesGiveNaN ==
    /\ output.op = "generateStatisticalTestsForStage4" =>
          /\ output.n < 8 => IsNaN(output.jb.jb) /\ IsNaN(output.jb.pValue)
          /\ output.n < 11 => IsNaN(output.lb10.Q) /\ IsNaN(output.lb10.pValue)
          /\ output.n < 16 => IsNaN(output.lb15.Q) /\ IsNaN(output.lb15.pValue)
          /\ output.n < 21 => IsNaN(output.lb20.Q) /\ IsNaN(output.lb20.pValue)
          /\ output.n < 3 => IsNaN(output.arch.LM) /\ IsNaN(output.arch.pValue)
    /\ (output.op = "adfTest" /\ NumDifferences < 2) =>
          IsNaN(output.result.statistic) /\ IsNaN(output.result.pValue)

\* the all-NaN result of a fitter: no residuals, every number NaN
IsRejection(r) ==
    /\ r.residuals = <<>>
    /\ \A f \in (DOMAIN r) \ {"residuals"} : IsNaN(r[f])
\* a fitted result: residuals and a coefficient
IsFitted(op, r) ==
    /\ r.residuals # <<>>
    /\ op # "fitMA1OnDiff" => ~IsNaN(r.phi)
    /\ op = "fitMA1OnDiff" => ~IsNaN(r.theta)

\* C4: fitAR1OnDiff and fitMA1OnDiff return the all-NaN result with no
\* residuals when the series has fewer than 3 first differences, and
\* fitARMA11OnDiff when it has fewer than 4; otherwise they return a fit.
C4_FittersRejectShortSeries ==
    /\ output.op \in {"fitAR1OnDiff", "fitMA1OnDiff"} =>
          IF NumDifferences < 3 THEN IsRejection(output.result)
          ELSE IsFitted(output.op, output.result)
    /\ output.op = "fitARMA11OnDiff" =>
          IF NumDifferences < 4 THEN IsRejection(output.result)
          ELSE IsFitted(output.op, output.result)

\* the number of parameters a fitter counts
ParamCount(op) == IF op = "fitARMA11OnDiff" THEN 3 ELSE 2

\* C5: for every fitted model of the three fitters, with k parameters and
\* nEff residuals, BIC = AIC + k * (ln(nEff) - 2).
C5_BicFromAic ==
    (output.op \in FitterOps /\ output.result.residuals # <<>>) =>
        StrictEq(output.result.BIC,
                 Add(output.result.AIC,
                     Mul(FromInt(ParamCount(output.op)),
                         Sub(MathLog(FromInt(Len(output.result.residuals))),
                             FromInt(2)))))
\* a fit of ARMA(1,1) with several residuals and finite criteria
C5_Witness ==
    /\ output.op = "fitARMA11OnDiff"
    /\ Len(output.result.residuals) >= 2
    /\ output.result.AIC.k = "num"
    /\ output.result.BIC.k = "num"

\* the outputs that carry a ranking
RankingOps == {"rankModels", "generateModelSelectionForStage2"}
IsFiniteModel(m) == IsFinite(m.AIC) /\ IsFinite(m.BIC)
\* the place of the candidate of that name in the input order
PositionOf(candidates, name) ==
    CHOOSE i \in 1..Len(candidates) : candidates[i].name = name

\* C6: model selection keeps exactly the candidates whose AIC and BIC are both
\* finite, orders them by ascending AIC and by ascending BIC among equal AIC,
\* ranks them 1..N in that order, and keeps the input order (AR, MA, ARMA) of
\* candidates equal in both AIC and BIC.
C6_RankingSortedAndStable ==
    (output.op \in RankingOps /\ output.rendered) =>
        /\ Len(output.models) =
              Cardinality({i \in 1..Len(output.candidates) :
                              IsFiniteModel(output.candidates[i])})
        /\ \A i \in 1..Len(output.candidates) :
              IsFiniteModel(output.candidates[i]) =>
                  \E j \in 1..Len(output.models) :
                      /\ output.models[j].name = output.candidates[i].name
                      /\ output.models[j].AIC = output.candidates[i].AIC
                      /\ output.models[j].BIC = output.candidates[i].BIC
        /\ \A j \in 1..Len(output.models) :
              /\ IsFiniteModel(output.models[j])
              /\ output.models[j].rank = j
        /\ \A i \in 1..Len(output.models), j \in 1..Len(output.models) :
              i < j =>
                  /\ Le(output.models[i].AIC, output.models[j].AIC)
                  /\ StrictEq(output.models[i].AIC, output.models[j].AIC) =>
                        Le(output.models[i].BIC, output.models[j].BIC)
                  /\ (/\ StrictEq(output.models[i].AIC, output.models[j].AIC)
                      /\ StrictEq(output.models[i].BIC, output.models[j].BIC)) =>
                        PositionOf(output.candidates, output.models[i].name)
                            < PositionOf(output.candidates, output.models[j].name)
\* three finite candidates, the second moved to the front, the other two tied
\* in AIC and in BIC
C6_Witness ==
    /\ output.op = "rankModels"
    /\ Len(output.models) = 3
    /\ output.models[1].name = "ARIMA(0,1,1)"
    /\ output.models[2].name = "ARIMA(1,1,0)"
    /\ output.models[2].AIC = output.models[3].AIC
    /\ output.models[2].BIC = output.models[3].BIC

\* the outputs of the two forecast routines that ran to their end
ForecastOps ==
    {"generateRealForecastsForStage5", "generateForecastGenerationForStage5"}
IsForecast == output.op \in ForecastOps /\ ~output.threw
ExamplePrices == <<FromInt(94), FromInt(98), FromInt(100)>>

\* C7: for a finite fitted phi, last difference d and last price y, the
\* forecast of the first future difference is phi * d, each next one is phi
\* times the previous (phi^h * d), and the level forecast of horizon h is y plus
\* the sum of the first h difference forecasts, for every h in 1..12; phi = 0.5,
\* d = 2, y = 100 give differences 1, 0.5, 0.25 and level 101.75 at h = 3.
C7_ForecastRecursion ==
    (IsForecast /\ IsFinite(output.phi) /\ IsFinite(output.lastPrice)) =>
        /\ Len(output.diffForecasts) = ForecastHorizon
        /\ Len(output.pointForecasts) = ForecastHorizon
        /\ output.diffForecasts[1] = Mul(output.phi, output.lastDiff)
        /\ \A h \in 2..ForecastHorizon :
              output.diffForecasts[h] =
                  Mul(output.phi, output.diffForecasts[h - 1])
        /\ \A h \in 1..ForecastHorizon :
              output.pointForecasts[h] =
                  Add(output.lastPrice, SumArr(SubSeq(output.diffForecasts, 1, h)))
        /\ Prices = ExamplePrices =>
              /\ output.phi = Num(5000)
              /\ output.lastDiff = FromInt(2)
              /\ output.lastPrice = FromInt(100)
              /\ SubSeq(output.diffForecasts, 1, 3) = <<Num(10000), Num(5000), Num(2500)>>
              /\ output.pointForecasts[3] = Num(1017500)
\* the worked example, forecast by the second routine
C7_Witness ==
    /\ output.op = "generateForecastGenerationForStage5"
    /\ Prices = ExamplePrices
    /\ output.phi = Num(5000)
    /\ output.pointForecasts[3] = Num(1017500)

\* two numbers equal to within tol units of the last digit kept
Close(a, b, tol) ==
    \/ a.k = "num" /\ b.k = "num" /\ AbsInt(a.v - b.v) <= tol
    \/ a.k # "num" /\ a = b
\* the digits a table cell may lose to rounding: a standard error is shown
\* with 3 decimals, an interval end with 2
SeTolerance == 10
IntervalTolerance == 100
\* SE(h) = sqrt(sigma2 * sum over m = 1..h of ((1 - phi^(h-m+1)) / (1 - phi))^2)
PropagatedSE(phi, sigma2, h) == MathSqrt(Mul(sigma2, WeightSquares(phi, h)))

\* C8: in every forecast row of generateRealForecastsForStage5 and of
\* generateForecastGenerationForStage5 the standard error reported for horizon
\* h is SE(h) of the AR(1) error propagation, and the row's 80% and 95%
\* intervals are the forecast -/+ 1.2816 and 1.96 times that reported SE.
C8_RowsReportPropagatedSE ==
    (/\ IsForecast
     /\ IsFinite(output.phi)
     /\ IsFinite(output.sigma2)
     /\ ~StrictEq(output.phi, One)) =>
        \A h \in 1..ShownRows :
            (/\ output.rows[h].se.k = "num"
             /\ output.rows[h].forecast.k = "num"
             /\ PropagatedSE(output.phi, output.sigma2, h).k = "num") =>
                /\ Close(output.rows[h].se,
                         PropagatedSE(output.phi, output.sigma2, h), SeTolerance)
                /\ Close(output.rows[h].ic80.lower,
                         Sub(output.rows[h].forecast, Mul(Z80, output.rows[h].se)),
                         IntervalTolerance)
                /\ Close(output.rows[h].ic80.upper,
                         Add(output.rows[h].forecast, Mul(Z80, output.rows[h].se)),
                         IntervalTolerance)
                /\ Close(output.rows[h].ic95.lower,
                         Sub(output.rows[h].forecast, Mul(Z95, output.rows[h].se)),
                         IntervalTolerance)
                /\ Close(output.rows[h].ic95.upper,
                         Add(output.rows[h].forecast, Mul(Z95, output.rows[h].se)),
                         IntervalTolerance)

\* a cell that shows no number
IsUndefinedCell(x) == x.k \in {"nan", "dash"}

\* C9: when the fitted phi is 1 every forecast routine reports the standard
\* error and both intervals of every horizon as undefined (NaN or not shown);
\* it neither substitutes a finite standard error nor raises.
C9_UnitRootGivesUndefinedSE ==
    /\ (output.op \in ForecastOps /\ Len(dollarData) >= MinPricesAR1) =>
          ~output.threw
    /\ (IsForecast /\ StrictEq(output.phi, One)) =>
          /\ \A h \in 1..ForecastHorizon : ~IsFinite(output.seForecasts[h])
          /\ \A h \in 1..ShownRows :
                /\ IsUndefinedCell(output.rows[h].se)
                /\ IsUndefinedCell(output.rows[h].ic80.lower)
                /\ IsUndefinedCell(output.rows[h].ic80.upper)
                /\ IsUndefinedCell(output.rows[h].ic95.lower)
                /\ IsUndefinedCell(output.rows[h].ic95.upper)

\* Monday to Friday
IsWeekday(day) == day % 7 # 0 /\ day % 7 # 6
\* the number of weekdays after the day from, up to and including the day to
WeekdaysAfter(from, to) == Cardinality({d \in (from + 1)..to : IsWeekday(d)})

\* C10: getNextBusinessDay(date, N), N >= 1, returns a weekday with exactly N
\* weekdays after the start date up to and including it; Friday + 1 is the
\* following Monday and Monday + 5 is the following Monday.
C10_NthBusinessDay ==
    output.op = "getNextBusinessDay" =>
        /\ IsWeekday(output.result)
        /\ WeekdaysAfter(output.lastDate, output.result) = output.daysAhead
        /\ (output.lastDate = LastFriday /\ output.daysAhead = 1) =>
              output.result = LastFriday + 3
        /\ (output.lastDate = LastMonday /\ output.daysAhead = 5) =>
              output.result = LastMonday + 7

FiniteEntries(data) == SelectSeq(data, IsFinite)

\* C12: an array with exactly one finite entry v gives n = 1, the measures of
\* spread and shape all 0 and the measures of location all v
C12_SingleValueStats ==
    (output.op = "calculateDescriptiveStats" /\ Len(FiniteEntries(output.data)) = 1) =>
        LET stats == output.result
            v == FiniteEntries(output.data)[1]
        IN /\ stats.n = 1
           /\ \A f \in {"variance", "stdDev", "range", "cv", "skewness", "kurtosis"} :
                 stats[f] = Zero
           /\ \A f \in {"mean", "median", "min", "max", "q1", "q3"} : stats[f] = v
\* one finite value among entries that are not finite
C12_Witness ==
    /\ output.op = "calculateDescriptiveStats"
    /\ Len(FiniteEntries(output.data)) = 1
    /\ Len(output.data) > 2
    /\ ~IsFinite(output.data[1])

\* C13: the statistics of an array are those of its finite entries in their
\* order, wherever the other entries sit; with no finite entry n is 0 and every
\* other field is NaN
C13_NonFiniteEntriesIgnored ==
    output.op = "calculateDescriptiveStats" =>
        /\ output.result = calculateDescriptiveStats(FiniteEntries(output.data))
        /\ output.result.n = Len(FiniteEntries(output.data))
        /\ FiniteEntries(output.data) = <<>> =>
              \A f \in DOMAIN output.result \ {"n"} : IsNaN(output.result[f])
\* an array that starts with an entry that is not finite and holds several
\* finite ones
C13_Witness ==
    /\ output.op = "calculateDescriptiveStats"
    /\ Len(output.data) > 0
    /\ ~IsFinite(output.data[1])
    /\ Len(FiniteEntries(output.data)) > 1
    /\ IsFinite(output.result.mean)

\* C14: two or three finite values of non-zero variance give NaN, never an
\* infinity, in the shape measure whose divisor is zero at that sample size:
\* the skewness and the kurtosis at n = 2, the kurtosis at n = 3
C14_SmallSampleShapeIsNaN ==
    (/\ output.op = "calculateDescriptiveStats"
     /\ output.result.n \in {2, 3}
     /\ Gt(output.result.variance, Zero)) =>
        /\ IsNaN(output.result.kurtosis)
        /\ output.result.n = 2 => IsNaN(output.result.skewness)

\* the arrays both routines return
CorrelationOps == {"calculateACF", "calculatePACF"}

\* C15: calculateACF and calculatePACF return maxLag + 1 entries, the first of
\* them exactly 1, whatever the array holds
C15_LagZeroIsOne ==
    output.op \in CorrelationOps =>
        /\ Len(output.result) = output.maxLags + 1
        /\ output.result[1] = One
\* the empty array and a constant array, each with a positive maxLag, and an
\* array with an entry that is not finite: this state is one of a constant array
C15_Witness ==
    /\ output.op \in CorrelationOps
    /\ output.maxLags > 1
    /\ Len(output.data) > 1
    /\ \A i \in 1..Len(output.data) : output.data[i] = output.data[1]
    /\ IsNaN(output.result[2])

\* C16: for an array of equal finite entries the entries of the result at the
\* lags >= 1 are one and the same value, all 0 or all NaN
C16_ConstantSeriesOneValue ==
    (/\ output.op \in CorrelationOps
     /\ Len(output.data) > 0
     /\ \A i \in 1..Len(output.data) :
           IsFinite(output.data[i]) /\ output.data[i] = output.data[1]) =>
        \/ \A lag \in 1..output.maxLags : output.result[lag + 1] = Zero
        \/ \A lag \in 1..output.maxLags : IsNaN(output.result[lag + 1])

\* C17: detectOutliers returns, in index order, exactly the entries strictly
\* below Q1 - 1.5 IQR (tagged as lower) or strictly above Q3 + 1.5 IQR (tagged
\* as upper), Q1 and Q3 being the sorted finite values at floor(0.25 n) and
\* floor(0.75 n); [1, 2, 3, 4, 5, 100] gives only 100, at index 5, as upper
C17_OutliersBeyondFences ==
    output.op = "detectOutliers" =>
        LET fenced(lower, upper) ==
                /\ \A k \in 1..Len(output.result) :
                      LET o == output.result[k]
                      IN /\ o.index \in 0..(Len(output.data) - 1)
                         /\ o.price = output.data[o.index + 1]
                         /\ Lt(o.price, lower) \/ Gt(o.price, upper)
                         /\ o.type = (IF Lt(o.price, lower) THEN "inferior"
                                      ELSE "superior")
                         /\ k > 1 => output.result[k - 1].index < o.index
                /\ \A i \in 1..Len(output.data) :
                      (Lt(output.data[i], lower) \/ Gt(output.data[i], upper))
                          => \E k \in 1..Len(output.result) :
                                output.result[k].index = i - 1
            quartiles(sorted, n) ==
                fenced(Sub(sorted[(n \div 4) + 1],
                           Mul(Num(15000),
                               Sub(sorted[((3 * n) \div 4) + 1], sorted[(n \div 4) + 1]))),
                       Add(sorted[((3 * n) \div 4) + 1],
                           Mul(Num(15000),
                               Sub(sorted[((3 * n) \div 4) + 1], sorted[(n \div 4) + 1]))))
            ascending(sorted) ==
                IF sorted = <<>> THEN output.result = <<>>
                ELSE quartiles(sorted, Len(sorted))
        IN /\ ascending(SortAsc(FiniteEntries(output.data)))
           /\ output.data \in ExampleArrays =>
                 output.result = <<[index |-> 5, price |-> FromInt(100),
                                    type |-> "superior"]>>
\* an array with an entry on a fence and an entry beyond it
C17_Witness ==
    /\ output.op = "detectOutliers"
    /\ Len(output.result) = 1
    /\ output.result[1].type = "inferior"
    /\ Len(output.data) > 2

\* C18: a fitter that accepts a series of L prices returns L - 2 residuals
\* (fitAR1OnDiff, fitARMA11OnDiff) or L - 1 (fitMA1OnDiff), and this number is
\* the nEff of sigma2, of the log-likelihood and of the BIC; a rejected series
\* gives no residuals
C18_ResidualCountIsNEff ==
    output.op \in FitterOps =>
        LET fit == output.result
            accepted(L, nEff, k) ==
                /\ Len(fit.residuals) = nEff
                /\ nEff = (IF output.op = "fitMA1OnDiff" THEN L - 1 ELSE L - 2)
                /\ fit.sigma2 = Div(SumSqArr(fit.residuals),
                                    FromInt(IF nEff > 1 THEN nEff ELSE 1))
                /\ fit.AIC = AicOf(GaussLogL(nEff, fit.sigma2), k)
                /\ fit.BIC = BicOf(GaussLogL(nEff, fit.sigma2), k, nEff)
                /\ output.op # "fitAR1OnDiff" => fit.logL = GaussLogL(nEff, fit.sigma2)
        IN IF Len(Prices) < (IF output.op = "fitARMA11OnDiff" THEN 4 ELSE 3)
           THEN fit.residuals = <<>>
           ELSE accepted(Len(Prices), Len(fit.residuals), ParamCount(output.op))
\* a moving-average fit of a longer series, with a finite BIC
C18_Witness ==
    /\ output.op = "fitMA1OnDiff"
    /\ Len(output.result.residuals) > 8
    /\ IsFinite(output.result.BIC)

\* the routines that are given an array
ArrayOps == {"calculateDescriptiveStats", "calculateACF", "calculatePACF",
             "detectOutliers"}

C20_LoadedSeriesOrdered ==
    appPhase = "ready" =>
        /\ \A i \in 1..Len(dollarData) : IsFinite(dollarData[i].price)
        /\ \A i, j \in 1..Len(dollarData) :
              (i < j /\ dollarData[i].date >= 0 /\ dollarData[j].date >= 0)
                  => dollarData[i].date <= dollarData[j].date
        /\ \A i \in 1..Len(dollarData) :
              dollarData[i].variation =
                  (IF i = 1 THEN Zero
                   ELSE Sub(dollarData[i].price, dollarData[i - 1].price))

\* C21: normalCdf is a distribution function: it does not decrease in z, it is
\* at least 0.5 for z >= 0 and at most 0.5 for z <= 0, and normalCdf(z) and
\* normalCdf(-z) add up to 1
C21_NormalCdfIsDistribution ==
    output.op = "normalCdf" =>
        /\ Ge(output.z, Zero) => Ge(output.result, Num(Scale \div 2))
        /\ Le(output.z, Zero) => Le(output.result, Num(Scale \div 2))
        /\ Close(Add(output.result, normalCdf(Neg(output.z))), One, 1)
        /\ \A w \in ZValues : Le(w, output.z) => Le(normalCdf(w), output.result)

\* C22: chiSquareUpperTailP(Q, df) lies in [0, 1], does not increase in Q for
\* a fixed df, and exceeds 0.5 only when Q is below the Wilson-Hilferty centre
\* df * (1 - 2 / (9 df))^3
C22_UpperTailDecreasesInQ ==
    output.op = "chiSquareUpperTailP" =>
        LET centre(a) == Mul(FromInt(output.df), Mul(a, Mul(a, a)))
        IN /\ Ge(output.result, Zero) /\ Le(output.result, One)
           /\ \A q \in QValues :
                 Le(q, output.Q) =>
                     Ge(chiSquareUpperTailP(q, output.df), output.result)
           /\ Gt(output.result, Num(Scale \div 2)) =>
                 Lt(output.Q,
                    centre(Sub(One, Div(FromInt(2), FromInt(9 * output.df)))))

\* C23: estimateThetaFromACF1 clamps rho1 to r in [-0.49, 0.49] and returns a
\* theta of magnitude at most 0.99 with r = -theta / (1 + theta^2), so a theta
\* that is not 0 has the sign opposite to r; it returns 0 when |r| < 1e-6
C23_ThetaSolvesMA1Equation ==
    output.op = "estimateThetaFromACF1" =>
        LET solves(r, theta) ==
                /\ Le(MathAbs(theta), Num(9900))
                /\ r = Zero => theta = Zero
                /\ r # Zero =>
                      /\ Close(r, Div(Neg(theta), Add(One, Mul(theta, theta))), 5)
                      /\ theta # Zero => SignOf(theta) = -SignOf(r)
        IN solves(MathMax(Num(-4900), MathMin(Num(4900), output.rho1)),
                  output.result)

\* C24: fitARMA11OnDiff returns a pair of the grid {-0.9, -0.8, .., 0.9}^2
\* whose mean squared residual is not above that of any pair of the grid and
\* is below that of every pair before it in scan order (phi outer, theta
\* inner, both ascending); its sigma2 is the mean squared residual of the pair
C24_GridSearchFirstMinimum ==
    (output.op = "fitARMA11OnDiff" /\ output.result.residuals # <<>>) =>
        LET fit == output.result
            grid == {Num(1000 * g) : g \in (-9)..9}
            msr(x, phi, theta) ==
                MeanSquare(ARMA11Residuals(x, phi, theta, Len(x) - 1))
            searched(x) ==
                /\ fit.phi \in grid /\ fit.theta \in grid
                /\ fit.sigma2 = msr(x, fit.phi, fit.theta)
                /\ \A phi \in grid, theta \in grid :
                      /\ Le(fit.sigma2, msr(x, phi, theta))
                      /\ (\/ Lt(phi, fit.phi)
                          \/ phi = fit.phi /\ Lt(theta, fit.theta))
                            => Lt(fit.sigma2, msr(x, phi, theta))
            differenced(returns) == searched(Centered(returns, Mean(returns)))
        IN differenced(Differences(Prices))
\* a fit whose best pair lies inside the grid and leaves residuals
C24_Witness ==
    /\ output.op = "fitARMA11OnDiff"
    /\ output.result.residuals # <<>>
    /\ Gt(output.result.sigma2, Zero)
    /\ Gt(output.result.phi, Num(-9000)) /\ Lt(output.result.phi, Num(9000))
    /\ Gt(output.result.theta, Num(-9000)) /\ Lt(output.result.theta, Num(9000))

\* C25: calculatePACF gives PACF(1) = ACF(1) and, for k = 2 .. maxLag,
\* PACF(k) = ACF(k) - sum over j = 1 .. k-1 of PACF(j) * ACF(k - j), ACF being
\* calculateACF of the same array: the lagged products of the deviations from
\* the mean of the whole array over the sum of squares of all of them
C25_PACFSimplifiedRecursion ==
    output.op = "calculatePACF" =>
        LET follows(d, acf, pacf) ==
                /\ acf = calculateACF(output.data, output.maxLags)
                /\ \A k \in 1..output.maxLags :
                      /\ acf[k + 1] =
                            Div(SumProd(SubSeq(d, 1, Len(d) - k), SubSeq(d, k + 1, Len(d))),
                                SumSqArr(d))
                      /\ pacf[k + 1] =
                            (IF k = 1 THEN acf[2]
                             ELSE Sub(acf[k + 1],
                                      SumArr([j \in 1..(k - 1) |->
                                                 Mul(pacf[j + 1], acf[k - j + 1])])))
        IN follows(DeviationsFromMean(output.data),
                   ACFOfDeviations(DeviationsFromMean(output.data), output.maxLags),
                   output.result)
\* a partial autocorrelation at lag 2 that is finite and differs from the
\* autocorrelation at lag 2
C25_Witness ==
    /\ output.op = "calculatePACF"
    /\ output.maxLags > 2
    /\ IsFinite(output.result[3])
    /\ output.result[3] # calculateACF(output.data, output.maxLags)[3]

\* C26: when the AR(1) fit is undefined (phi is NaN, the series being too
\* short) a forecast routine reports every point forecast as NaN; it never
\* presents the last observed price as the forecast of every horizon
C26_UnfittedModelForecastsNaN ==
    (IsForecast /\ IsNaN(output.phi)) =>
        \A h \in 1..ForecastHorizon : IsNaN(output.pointForecasts[h])

\* C27: on an array of n >= m + 1 finite numbers, constant arrays included,
\* computeAutocorrelations(values, m)[k-1] is calculateACF(values, m)[k] for
\* every lag k in 1..m
C27_AutocorrelationsAgree ==
    (/\ output.op = "computeAutocorrelations"
     /\ Len(output.values) >= output.m + 1
     /\ \A i \in 1..Len(output.values) : IsFinite(output.values[i])) =>
        \A k \in 1..output.m :
            output.result[k] = calculateACF(output.values, output.m)[k + 1]

\* C28: getNextBusinessDay returns the same calendar date for the same start
\* date and N on every host, west of, at or east of UTC: the day the weekday
\* test looks at is the day returned, which is never a Saturday or a Sunday
C28_SameDateOnEveryHost ==
    output.op = "getNextBusinessDay" =>
        /\ \A offset \in HostOffsets :
              output.result =
                  getNextBusinessDay(output.lastDate, output.daysAhead, offset)
        /\ GetDay(ParseIsoDate(output.result), hostOffset) = output.result % 7
        /\ output.result % 7 \notin {0, 6}

\* C29: selectStage and closeNestedSidebar always leave currentPoint = null,
\* and whenever currentPoint is not null, currentStage is not null and is the
\* stage whose nested menu the selected point belongs to
C29_PointBelongsToCurrentStage ==
    /\ [][(selectStage \/ closeNestedSidebar) => currentPoint' = Null]_vars
    /\ [](currentPoint # Null => (currentStage # Null /\ currentStage = nestedMenu))

\* C30: a render callback that fires after the user moved on does not change
\* the view then displayed: it writes into the container of its own view
\* only, so whatever was written into the displayed view was written by the
\* routine this very view schedules
C30_CallbackWritesOwnViewOnly ==
    \A written \in contentBody.filled :
        written.routine = ViewRoutine(contentBody.view)

====
